---- MODULE Spec2Model ----
(***************************************************************************)
(* Model of the automation node-graph engine of baserow/contrib/automation *)
(* (nodes/handler.py, nodes/service.py, workflows/handler.py).             *)
(*                                                                         *)
(* The specifications of the module:                                       *)
(*   Spec    - the graph mutation operations of AutomationNodeService,     *)
(*             from a freshly created workflow                             *)
(*   OpSpec  - one mutation operation (or a move and the move back)        *)
(*             applied to each workflow graph of a bounded size            *)
(*   RunSpec - the run controller of AutomationWorkflowHandler             *)
(*   DispatchSpec - one run of dispatch_node on each workflow graph        *)
(*   RouterSpec - the dispatch of a router service over its edges          *)
(*   PermSpec - the entry points of the service called by a denied user    *)
(*   OrderSpec - order_nodes on a workflow                                 *)
(*   LimiterSpec - concurrent start attempts at the rate limiter           *)
(*   PublishSpec - publish: the nodes of the draft imported into the copy  *)
(* Each leaves the variables it does not use at their initial values.      *)
(***************************************************************************)
EXTENDS Integers, Sequences, FiniteSets, TLC

VARIABLES
    nodes,      \* the AutomationNode table: a sequence of rows, a row's id is its index
    lastNode,   \* the id of the live node with the highest order
    last,       \* OpSpec: the operation that was applied, its arguments, the graph before
    now,        \* timezone.now(), in seconds
    window,     \* the rate-limit cache entry of the original workflow (run timestamps)
    history,    \* AutomationWorkflowHistory statuses of the original workflow, newest first
    wfState,    \* state of the draft workflow and of its published copy
    armed,      \* allow_test_run_until and simulate_until_node of the draft workflow
    admitted,   \* every timestamp the rate limiter ever admitted (never pruned)
    lastRun,    \* the last start_workflow call and its outcome
    dispatch_context, \* the run of dispatch_node in progress
    router,     \* a router service, its edges and the result of its dispatch
    nodes_order, \* get_nodes_order: the live node ids of the workflow, lowest order first
    limiter,    \* LimiterSpec: the concurrent calls of _check_is_rate_limited
    published_copy \* PublishSpec: the nodes import_nodes gave the published workflow

graphVars == <<nodes, lastNode, last>>
runVars == <<now, window, history, wfState, armed, admitted, lastRun>>
dispatchVars == <<dispatch_context, router>>
otherVars == <<nodes_order, limiter, published_copy>>
vars == <<nodes, lastNode, last, now, window, history, wfState, armed, admitted, lastRun, dispatch_context, router, otherVars>>

---------------------------------------------------------------------------
(* Bounds of the model *)

MaxNodes == 3           \* Spec: rows ever inserted in the node table
GraphSize == 4          \* OpSpec: rows of the graphs an operation is applied to
MaxTime == 3            \* RunSpec: the clock stops here
MaxHistory == 3         \* RunSpec: history entries ever recorded
MaxTrace == 6
MaxEdges == 3
MaxOrder == 3
MaxAttempts == 4        \* LimiterSpec: calls of _check_is_rate_limited ever made
MaxUndo == 2            \* DuplicateSpec: undos of one duplication

(* Settings, scaled down *)

AUTOMATION_WORKFLOW_RATE_LIMIT_MAX_RUNS == 2
AUTOMATION_WORKFLOW_RATE_LIMIT_CACHE_EXPIRY_SECONDS == 2
AUTOMATION_WORKFLOW_MAX_CONSECUTIVE_ERRORS == 2
ALLOW_TEST_RUN_MINUTES == 1

(* Values *)

None == 0               \* a null previous_node_id
NoOutput == "None"      \* a previous_node_output / output_uid argument that is None
Absent == -1            \* a key that is not in the kwargs of create_node
Outputs == {"", "k"}    \* branch keys: the default branch and a named one
Kinds == {"trigger", "action"}

NoWorkflow == "none"    \* there is no published copy
NotTrashed == "no"
ReplaceOp == "replace_automation_node"
DeleteOp == "delete"

Falsy(o) == o \in {NoOutput, ""}

---------------------------------------------------------------------------
(* Graph store *)

Ids(ns) == DOMAIN ns

\* AutomationNode.objects / workflow.automation_workflow_nodes: rows that
\* are not trashed.
Live(ns) == {i \in Ids(ns) : ns[i].trashed = NotTrashed}

WorkflowNodes(ns, w) == {i \in Live(ns) : ns[i].wf = w}

get_next_nodes(ns, w, node, output_uid) ==
    {i \in WorkflowNodes(ns, w) :
        /\ ns[i].prev = node
        /\ (output_uid # NoOutput => ns[i].out = output_uid)}

update_previous_node(ns, new_previous_node, S, previous_node_output) ==
    [i \in Ids(ns) |->
        IF i \in S
        THEN [ns[i] EXCEPT !.prev = new_previous_node,
                           !.out = IF previous_node_output = NoOutput
                                   THEN @ ELSE previous_node_output]
        ELSE ns[i]]

is_workflow_trigger(kind) == kind = "trigger"

is_fixed(kind) == kind = "trigger"

is_replaceable_with_any(kind, other) == TRUE

is_replaceable_with(kind, other) ==
    is_workflow_trigger(kind) = is_workflow_trigger(other)

\* AutomationWorkflow.get_last_node_id: the live node with the highest order.
get_last_node_id(ns, l) == IF l \in Live(ns) THEN l ELSE None

---------------------------------------------------------------------------
(* AutomationNodeHandler.create_node *)

create_prev(ns, before, givenPrev, lastId) ==
    IF givenPrev # Absent THEN givenPrev
    ELSE IF before # None THEN ns[before].prev
    ELSE lastId

\* create_node without lines 233-236: the output of `before` is not taken over.
create_out_given_only(ns, before, givenOut) ==
    IF givenOut # NoOutput THEN givenOut ELSE ""

create_out(ns, before, givenOut) ==
    IF before # None /\ ~Falsy(ns[before].out) THEN ns[before].out
    ELSE IF givenOut # NoOutput THEN givenOut
    ELSE ""

create_to_update(ns, w, before) ==
    IF before = None THEN {}
    ELSE {i \in WorkflowNodes(ns, w) :
            /\ ns[i].prev = (IF ns[before].prev = None THEN before
                             ELSE ns[before].prev)
            /\ ns[i].out = ns[before].out}

create_node(ns, kind, w, before, givenPrev, givenOut, lastId) ==
    LET n == Len(ns) + 1
        row == [wf |-> w, kind |-> kind,
                prev |-> create_prev(ns, before, givenPrev, lastId),
                out |-> create_out(ns, before, givenOut),
                trashed |-> NotTrashed]
        saved == Append(ns, row)
        relinked == update_previous_node(saved, n, create_to_update(ns, w, before),
                                         NoOutput)
    IN  IF before # None /\ ~Falsy(ns[before].out)
        THEN [relinked EXCEPT ![before].out = ""]
        ELSE relinked

---------------------------------------------------------------------------
(* AutomationNodeHandler.duplicate_node *)

\* duplicate_node relinking the next nodes of every branch of the source.
duplicate_node_all_branches(ns, source) ==
    LET d == Len(ns) + 1
        row == [wf |-> ns[source].wf, kind |-> ns[source].kind,
                prev |-> source, out |-> "", trashed |-> NotTrashed]
    IN  update_previous_node(Append(ns, row), d,
                             get_next_nodes(ns, ns[source].wf, source, NoOutput),
                             NoOutput)

duplicate_node(ns, source) ==
    LET d == Len(ns) + 1
        source_node_next_nodes == get_next_nodes(ns, ns[source].wf, source, "")
        row == [wf |-> ns[source].wf, kind |-> ns[source].kind,
                prev |-> source, out |-> "", trashed |-> NotTrashed]
    IN  update_previous_node(Append(ns, row), d, source_node_next_nodes, NoOutput)

---------------------------------------------------------------------------
(* AutomationNodeHandler.move_node *)

\* move_node without lines 443-445: the nodes that followed `node` stay.
move_origin_left_open(ns, node) == ns

move_origin_closed(ns, node) ==
    update_previous_node(ns, ns[node].prev,
                         get_next_nodes(ns, ns[node].wf, node, NoOutput),
                         ns[node].out)

move_node(ns, node, after_node, previous_node_output) ==
    LET closed == move_origin_closed(ns, node)
        destination_next_nodes ==
            get_next_nodes(closed, ns[after_node].wf, after_node,
                           previous_node_output)
        placed == [closed EXCEPT
                     ![node].prev = after_node,
                     ![node].out = IF Falsy(previous_node_output) THEN ""
                                   ELSE previous_node_output]
    IN  update_previous_node(placed, node, destination_next_nodes,
                             IF Falsy(previous_node_output) THEN NoOutput ELSE "")

---------------------------------------------------------------------------
(* TrashHandler.trash for an automation node.  The node is soft-deleted.   *)
(* Under the replace operation type the nodes that follow it are handed to *)
(* its predecessor, as test_replace_node_in_first and                      *)
(* test_replace_node_in_middle assert; under an ordinary delete they are   *)
(* left as they are.                                                       *)

\* Which trash operations hand the followers of the trashed node on.
trash_relinks_every_operation(op) == TRUE

trash_relinks(op) == op = ReplaceOp

trash(ns, node, op) ==
    LET relinked ==
            IF trash_relinks(op)
            THEN update_previous_node(ns, ns[node].prev,
                                      get_next_nodes(ns, ns[node].wf, node, NoOutput),
                                      NoOutput)
            ELSE ns
    IN  [relinked EXCEPT ![node].trashed = op]

\* The trigger cannot be deleted (AutomationTriggerModificationDisallowed).
delete_allowed_all_kinds(kind) == TRUE

delete_allowed(kind) == ~is_workflow_trigger(kind)

---------------------------------------------------------------------------
(* AutomationNodeService.replace_node *)

\* The replaced node trashed as an ordinary delete trashes.
replace_node_plain_trash(ns, node, new_kind) ==
    LET created == create_node(ns, new_kind, ns[node].wf, node, Absent, NoOutput, None)
    IN  trash(created, node, DeleteOp)

replace_node(ns, node, new_kind) ==
    LET created == create_node(ns, new_kind, ns[node].wf, node, Absent, NoOutput, None)
    IN  trash(created, node, ReplaceOp)

---------------------------------------------------------------------------
(* The order field, as far as get_last_node_id reads it: which live node   *)
(* has the highest order after an operation.  When that node is moved or   *)
(* deleted the node with the second highest order takes its place; the     *)
(* model does not record which one that is.                                *)

OtherLive(ns, node) == Live(ns) \ {node}

\* get_last_order: the new node is ordered after every other node.
\* get_unique_order_before_node: the new node is ordered just before `before`.
last_after_create(l, n, before) == IF before = None THEN n ELSE l

last_after_move(ns, l, node, after_node) ==
    IF node = l /\ after_node # node THEN OtherLive(ns, node) ELSE {l}

last_after_replace(l, n, node) == IF node = l THEN n ELSE l

last_after_delete(ns, l, node) ==
    IF node # l THEN {l}
    ELSE IF OtherLive(ns, node) = {} THEN {None} ELSE OtherLive(ns, node)

---------------------------------------------------------------------------
(* AutomationNodeService: the transition of each entry point *)

\* Triggers are not created by users: "all kinds" is the service without
\* the check of lines 130-131.
create_allowed_all_kinds(kind) == TRUE

create_allowed(kind) == ~is_workflow_trigger(kind)

NoError == "none"

\* The workflow of the graphs and a second workflow of the same automation.
WorkflowIds == {1, 2}

\* What create_node raises before it touches anything, in the order of its
\* checks.
\* create_node without the check that `before` has a predecessor.
create_error_before_trigger_accepted(ns, kind, w, before) ==
    IF ~create_allowed(kind) THEN "AutomationTriggerModificationDisallowed"
    ELSE IF before # None /\ w # ns[before].wf THEN "AutomationNodeBeforeInvalid"
    ELSE NoError

create_error(ns, kind, w, before) ==
    IF ~create_allowed(kind) THEN "AutomationTriggerModificationDisallowed"
    ELSE IF before # None /\ w # ns[before].wf THEN "AutomationNodeBeforeInvalid"
    ELSE IF before # None /\ ns[before].prev = None THEN "AutomationNodeBeforeInvalid"
    ELSE NoError

\* before_replace: what replace_node raises before it creates the new node.
replace_error(ns, node, new_kind) ==
    IF ~is_replaceable_with(ns[node].kind, new_kind) THEN "AutomationNodeNotReplaceable"
    ELSE NoError

\* What delete_node raises instead of trashing the node.
delete_error(ns, node) ==
    IF ~delete_allowed(ns[node].kind) THEN "AutomationTriggerModificationDisallowed"
    ELSE NoError

Create(kind, w, before, givenPrev, givenOut) ==
    /\ before # None => before \in Live(nodes)
    /\ create_error(nodes, kind, w, before) = NoError
    /\ nodes' = create_node(nodes, kind, w, before, givenPrev, givenOut,
                            get_last_node_id(nodes, lastNode))
    /\ lastNode' = last_after_create(lastNode, Len(nodes) + 1, before)

Duplicate(node) ==
    /\ node \in Live(nodes)
    /\ ~is_workflow_trigger(nodes[node].kind)
    /\ nodes' = duplicate_node(nodes, node)
    /\ lastNode' = Len(nodes) + 1

Move(node, new_previous_node_id, new_previous_output) ==
    /\ node \in Live(nodes)
    /\ ~is_fixed(nodes[node].kind)
    /\ new_previous_node_id \in Live(nodes)
    /\ nodes' = move_node(nodes, node, new_previous_node_id, new_previous_output)
    /\ lastNode' \in last_after_move(nodes, lastNode, node, new_previous_node_id)

Replace(node, new_kind) ==
    /\ node \in Live(nodes)
    /\ is_replaceable_with(nodes[node].kind, new_kind)
    /\ nodes' = replace_node(nodes, node, new_kind)
    /\ lastNode' = last_after_replace(lastNode, Len(nodes) + 1, node)

Delete(node) ==
    /\ node \in Live(nodes)
    /\ delete_allowed(nodes[node].kind)
    /\ nodes' = trash(nodes, node, DeleteOp)
    /\ lastNode' \in last_after_delete(nodes, lastNode, node)

\* order_nodes assigns the order values in the sequence it is given, `node`
\* being the last id of that sequence; no pointer of the graph changes.
Order(node) ==
    /\ node \in Live(nodes)
    /\ node # lastNode
    /\ nodes' = nodes
    /\ lastNode' = node

---------------------------------------------------------------------------
(* Spec: the node service on a freshly created workflow *)

InitNodes ==
    <<[wf |-> 1, kind |-> "trigger", prev |-> None, out |-> "", trashed |-> NotTrashed]>>

NoOp == [op |-> "none"]

\* No dispatch_node call has been made.
NoDispatch == [status |-> "idle"]

\* No router service is looked at.
NoResult == [output_uid |-> NoOutput]

NoRouter == [default_edge_label |-> "", edges |-> <<>>, result |-> NoResult]

\* The variables of OrderSpec, where no specification looks at them.
\* No call of _check_is_rate_limited was made yet.
NoLimiter ==
    [pc |-> [w \in {} |-> "idle"], data |-> [w \in {} |-> <<>>],
     lock |-> None, set_at |-> 0, attempts |-> 0]

\* publish was not called.
NoCopy == [status |-> "none"]

InitOther ==
    /\ nodes_order = <<>>
    /\ limiter = NoLimiter
    /\ published_copy = NoCopy

InitRun ==
    /\ now = 1
    /\ window = <<>>
    /\ history = <<>>
    /\ wfState = [draft |-> "draft", published |-> NoWorkflow]
    /\ armed = [allow_test_run_until |-> None, simulate_until_node |-> None]
    /\ admitted = <<>>
    /\ lastRun = [kind |-> "none"]

Init ==
    /\ nodes = InitNodes
    /\ lastNode = 1
    /\ last = NoOp
    /\ dispatch_context = NoDispatch
    /\ router = NoRouter
    /\ InitOther
    /\ InitRun

CreateNode(kind, before, givenPrev, givenOut) ==
    /\ Len(nodes) < MaxNodes
    /\ Create(kind, 1, before, givenPrev, givenOut)
    /\ UNCHANGED <<last, runVars, dispatchVars, otherVars>>

DuplicateNode(node) ==
    /\ Len(nodes) < MaxNodes
    /\ Duplicate(node)
    /\ UNCHANGED <<last, runVars, dispatchVars, otherVars>>

MoveNode(node, after, q) ==
    /\ Move(node, after, q)
    /\ UNCHANGED <<last, runVars, dispatchVars, otherVars>>

ReplaceNode(node, new_kind) ==
    /\ Len(nodes) < MaxNodes
    /\ Replace(node, new_kind)
    /\ UNCHANGED <<last, runVars, dispatchVars, otherVars>>

DeleteNode(node) ==
    /\ Delete(node)
    /\ UNCHANGED <<last, runVars, dispatchVars, otherVars>>

OrderNodes(node) ==
    /\ Order(node)
    /\ UNCHANGED <<last, runVars, dispatchVars, otherVars>>

Next ==
    \/ \E kind \in Kinds, before \in {None} \cup Ids(nodes),
          givenPrev \in {Absent} \cup Ids(nodes), givenOut \in {NoOutput} \cup Outputs :
            CreateNode(kind, before, givenPrev, givenOut)
    \/ \E node \in Ids(nodes) : DuplicateNode(node)
    \/ \E node \in Ids(nodes), after \in Ids(nodes), q \in {NoOutput} \cup Outputs :
            MoveNode(node, after, q)
    \/ \E node \in Ids(nodes), new_kind \in Kinds : ReplaceNode(node, new_kind)
    \/ \E node \in Ids(nodes) : DeleteNode(node)
    \/ \E node \in Ids(nodes) : OrderNodes(node)

Spec == Init /\ [][Next]_vars

---------------------------------------------------------------------------
(* OpSpec: one operation on each workflow graph of at most GraphSize rows. *)
(* The graphs are those a sequence of create_node calls with a             *)
(* previous_node_id and a previous_node_output builds from the trigger,    *)
(* any one of their action nodes deleted, any live node ordered last.      *)

ActionRows(n) ==
    {[wf |-> 1, kind |-> "action", prev |-> p, out |-> o, trashed |-> NotTrashed] :
        p \in 1..n, o \in Outputs}

RECURSIVE GraphsOfSize(_)
GraphsOfSize(n) ==
    IF n = 1 THEN {InitNodes}
    ELSE {Append(g, r) : g \in GraphsOfSize(n - 1), r \in ActionRows(n - 1)}

Graphs == UNION {GraphsOfSize(n) : n \in 1..GraphSize}

WithOneDeleted(g) ==
    {g} \cup {[g EXCEPT ![i].trashed = DeleteOp] : i \in 2..Len(g)}

OpInit ==
    /\ \E g \in Graphs : nodes \in WithOneDeleted(g)
    /\ lastNode \in Live(nodes)
    /\ last = NoOp
    /\ dispatch_context = NoDispatch
    /\ router = NoRouter
    /\ InitOther
    /\ InitRun

Applied(op, x, y, q, g) ==
    [op |-> op, pre |-> nodes, x |-> x, y |-> y, q |-> q, g |-> g, error |-> NoError]

\* The operation raised `error`; `kind` is the node type it was called with.
\* and `w` the workflow.
Refused(op, x, y, kind, w, error) ==
    [op |-> op, pre |-> nodes, x |-> x, y |-> y, q |-> NoOutput, g |-> Absent,
     error |-> error, kind |-> kind, wf |-> w]

OpCreate(kind, before, givenPrev, givenOut) ==
    /\ last.op = "none"
    /\ Create(kind, 1, before, givenPrev, givenOut)
    /\ last' = Applied("create", Len(nodes) + 1, before, givenOut, givenPrev)
    /\ UNCHANGED <<runVars, dispatchVars, otherVars>>

OpCreateRefused(kind, w, before) ==
    /\ last.op = "none"
    /\ before # None => before \in Live(nodes)
    /\ create_error(nodes, kind, w, before) # NoError
    /\ last' = Refused("create", None, before, kind, w, create_error(nodes, kind, w, before))
    /\ UNCHANGED <<nodes, lastNode, runVars, dispatchVars, otherVars>>

OpDuplicate(node) ==
    /\ last.op = "none"
    /\ Duplicate(node)
    /\ last' = Applied("duplicate", Len(nodes) + 1, node, NoOutput, Absent)
    /\ UNCHANGED <<runVars, dispatchVars, otherVars>>

OpMove(node, after, q) ==
    /\ last.op = "none"
    /\ Move(node, after, q)
    /\ last' = Applied("move", node, after, q, Absent)
    /\ UNCHANGED <<runVars, dispatchVars, otherVars>>

\* The second move of a round trip: the moved node is moved after the
\* predecessor it had, onto the branch it was on.
OpMoveBack ==
    /\ last.op = "move"
    /\ last.pre[last.x].prev # None
    /\ Move(last.x, last.pre[last.x].prev, last.pre[last.x].out)
    /\ last' = [last EXCEPT !.op = "moveback"]
    /\ UNCHANGED <<runVars, dispatchVars, otherVars>>

OpReplace(node, new_kind) ==
    /\ last.op = "none"
    /\ Replace(node, new_kind)
    /\ last' = Applied("replace", Len(nodes) + 1, node, NoOutput, Absent)
    /\ UNCHANGED <<runVars, dispatchVars, otherVars>>

OpReplaceRefused(node, new_kind) ==
    /\ last.op = "none"
    /\ node \in Live(nodes)
    /\ replace_error(nodes, node, new_kind) # NoError
    /\ last' = Refused("replace", None, node, new_kind, nodes[node].wf,
                        replace_error(nodes, node, new_kind))
    /\ UNCHANGED <<nodes, lastNode, runVars, dispatchVars, otherVars>>

OpDelete(node) ==
    /\ last.op = "none"
    /\ Delete(node)
    /\ last' = Applied("delete", node, None, NoOutput, Absent)
    /\ UNCHANGED <<runVars, dispatchVars, otherVars>>

OpDeleteRefused(node) ==
    /\ last.op = "none"
    /\ node \in Live(nodes)
    /\ delete_error(nodes, node) # NoError
    /\ last' = Refused("delete", node, None, nodes[node].kind, nodes[node].wf,
                        delete_error(nodes, node))
    /\ UNCHANGED <<nodes, lastNode, runVars, dispatchVars, otherVars>>

OpOrder(node) ==
    /\ last.op = "none"
    /\ Order(node)
    /\ last' = Applied("order", node, None, NoOutput, Absent)
    /\ UNCHANGED <<runVars, dispatchVars, otherVars>>

OpNext ==
    \/ \E kind \in Kinds, before \in {None} \cup Ids(nodes),
          givenPrev \in {Absent} \cup Ids(nodes), givenOut \in {NoOutput} \cup Outputs :
            OpCreate(kind, before, givenPrev, givenOut)
    \/ \E kind \in Kinds, w \in WorkflowIds, before \in {None} \cup Ids(nodes) :
            OpCreateRefused(kind, w, before)
    \/ \E node \in Ids(nodes) : OpDuplicate(node)
    \/ \E node \in Ids(nodes), after \in Ids(nodes), q \in {NoOutput} \cup Outputs :
            OpMove(node, after, q)
    \/ OpMoveBack
    \/ \E node \in Ids(nodes), new_kind \in Kinds : OpReplace(node, new_kind)
    \/ \E node \in Ids(nodes), new_kind \in Kinds : OpReplaceRefused(node, new_kind)
    \/ \E node \in Ids(nodes) : OpDelete(node)
    \/ \E node \in Ids(nodes) : OpDeleteRefused(node)
    \/ \E node \in Ids(nodes) : OpOrder(node)

OpSpec == OpInit /\ [][OpNext]_vars

---------------------------------------------------------------------------
(* Well-formed graphs (the invariant of the graph store) *)

LiveTriggers(ns) == {i \in Live(ns) : ns[i].kind = "trigger"}

RECURSIVE Walk(_, _, _)
\* The node reached from i by following previous_node_id at most k times.
Walk(ns, i, k) ==
    IF k = 0 \/ ns[i].prev = None THEN i ELSE Walk(ns, ns[i].prev, k - 1)

Connected(ns) ==
    /\ \A i \in Live(ns) \ LiveTriggers(ns) : ns[i].prev \in Live(ns)
    /\ \A i \in Live(ns) : Walk(ns, i, Len(ns)) \in LiveTriggers(ns)

OneTrigger(ns) ==
    /\ Cardinality(LiveTriggers(ns)) = 1
    /\ \A t \in LiveTriggers(ns) : ns[t].prev = None

UniqueSlots(ns) ==
    \A i, j \in Live(ns) :
        (ns[i].prev = ns[j].prev /\ ns[i].out = ns[j].out) => i = j

WellFormed(ns) == OneTrigger(ns) /\ Connected(ns) /\ UniqueSlots(ns)

\* successorsOf(node, outputKey)
SuccessorsOf(ns, node, b) == get_next_nodes(ns, 1, node, b)

SameSuccessors(a, b) ==
    \A n \in Ids(a), o \in Outputs : SuccessorsOf(a, n, o) = SuccessorsOf(b, n, o)

SameFollowers(a, b) ==
    \A n \in Ids(a) : SuccessorsOf(a, n, NoOutput) = SuccessorsOf(b, n, NoOutput)

NoNamedSuccessor(ns, n) == \A o \in Outputs \ {""} : SuccessorsOf(ns, n, o) = {}

---------------------------------------------------------------------------
(* Contracts of the mutation operations (OpSpec) *)

\* C1: a create_node call with before = B and no previous_node_id of its
\* own that is not refused, where B followed P on the named branch k, leaves
\* the new node N on (P, k) and B on (N, "").
C1_CreateBeforeSplice ==
    (/\ last.op = "create"
     /\ last.error = NoError
     /\ last.y # None
     /\ last.g = Absent
     /\ last.pre[last.y].out # "")
    => /\ nodes[last.x].prev = last.pre[last.y].prev
       /\ nodes[last.x].out = last.pre[last.y].out
       /\ nodes[last.y].prev = last.x
       /\ nodes[last.y].out = ""

C1_Witness ==
    /\ last.op = "create"
    /\ last.error = NoError
    /\ last.y # None
    /\ last.g = Absent
    /\ last.pre[last.y].out = "k"
    /\ nodes[last.x].out = "k"
    /\ nodes[last.y].prev = last.x

\* C2: duplicate_node(S) leaves the duplicate D on (S, ""), hands the live
\* nodes that followed S on the empty branch to D, and leaves the live nodes
\* that followed S on a named branch where they were.
C2_DuplicateRelink ==
    last.op = "duplicate"
    => /\ nodes[last.x].prev = last.y
       /\ nodes[last.x].out = ""
       /\ \A i \in Live(last.pre) :
            /\ (last.pre[i].prev = last.y /\ last.pre[i].out = "")
                  => nodes[i].prev = last.x
            /\ (last.pre[i].prev = last.y /\ last.pre[i].out # "")
                  => (nodes[i].prev = last.y /\ nodes[i].out = last.pre[i].out)

C2_Witness ==
    /\ last.op = "duplicate"
    /\ \E i, j \in Live(last.pre) :
          /\ last.pre[i].prev = last.y /\ last.pre[i].out = ""
          /\ last.pre[j].prev = last.y /\ last.pre[j].out = "k"
          /\ nodes[i].prev = last.x
          /\ nodes[j].prev = last.y

---------------------------------------------------------------------------
(* Invariants of the graph under the node service (Spec) *)

NoDeleted(ns) == \A i \in Ids(ns) : ns[i].trashed # DeleteOp

Acyclic(ns) == \A i \in Ids(ns) : ns[Walk(ns, i, Len(ns))].prev = None

\* C4: after any sequence of create, move, duplicate and replace operations
\* every live node but the trigger has a live predecessor and every live node
\* is reached from the trigger.
C4_Connected == NoDeleted(nodes) => Connected(nodes)

C6_Acyclic == NoDeleted(nodes) => Acyclic(nodes)

\* C7: after each completed operation no two live nodes have the same
\* (previous_node_id, previous_node_output).
C7_UniqueSlots == UniqueSlots(nodes)

---------------------------------------------------------------------------
(* Run controller: AutomationWorkflowHandler *)

WorkflowStates == {"draft", "live", "disabled"}
Workflows == {"draft", "published"}
DispatchOutcomes == {"Success", "DispatchException", "Exception"}

\* get_original_workflow: the automation of a published copy has
\* published_from set, the draft has not.
get_original_workflow(workflow) ==
    IF workflow = "published" THEN "draft" ELSE workflow

\* get_published_workflow: the latest published copy, if any.
get_published_workflow(ws) ==
    IF ws.published = NoWorkflow THEN NoWorkflow ELSE "published"

\* _check_is_rate_limited_value: the timestamps of data inside the window.
runs_in_window(data, t) ==
    LET start_window == t - AUTOMATION_WORKFLOW_RATE_LIMIT_CACHE_EXPIRY_SECONDS
        InWindow(timestamp) == timestamp > start_window
    IN SelectSeq(data, InWindow)

rate_limited_above_max(data, t) ==
    Len(runs_in_window(data, t)) > AUTOMATION_WORKFLOW_RATE_LIMIT_MAX_RUNS

\* _check_is_rate_limited_value raises AutomationWorkflowRateLimited.
rate_limited(data, t) ==
    Len(runs_in_window(data, t)) >= AUTOMATION_WORKFLOW_RATE_LIMIT_MAX_RUNS

\* The cache entry _check_is_rate_limited_value returns.
_check_is_rate_limited_value(data, t) == Append(runs_in_window(data, t), t)

Min(a, b) == IF a < b THEN a ELSE b

\* _check_too_many_errors raises AutomationWorkflowTooManyErrors;
\* statuses_all are the history statuses of the workflow, newest first.
_check_too_many_errors(statuses_all) ==
    LET max_errors == AUTOMATION_WORKFLOW_MAX_CONSECUTIVE_ERRORS
        sliced == SubSeq(statuses_all, 1, Min(Len(statuses_all), max_errors + 1))
        statuses == IF Len(sliced) > 0 /\ sliced[1] = "started"
                    THEN Tail(sliced) ELSE sliced
    IN /\ ~(Len(statuses) < max_errors)
       /\ \A i \in 1..Len(statuses) : statuses[i] = "error"

disable_workflow_only_given(ws, workflow) ==
    [ws EXCEPT ![workflow] = "disabled"]

\* disable_workflow: the given workflow and its original.
disable_workflow(ws, workflow) ==
    LET workflow_ids == {workflow, get_original_workflow(workflow)}
    IN [w \in DOMAIN ws |-> IF w \in workflow_ids THEN "disabled" ELSE ws[w]]

reset_workflow_temporary_states_test_run_only(a) ==
    [a EXCEPT !.allow_test_run_until = None]

\* reset_workflow_temporary_states: each flag that is set is cleared.
reset_workflow_temporary_states(a) ==
    [allow_test_run_until |-> IF a.allow_test_run_until # None THEN None
                              ELSE a.allow_test_run_until,
     simulate_until_node |-> IF a.simulate_until_node # None THEN None
                             ELSE a.simulate_until_node]

\* set_workflow_temporary_states
set_workflow_temporary_states(a, simulate_until_node, t) ==
    IF simulate_until_node # None
    THEN [a EXCEPT !.simulate_until_node = simulate_until_node]
    ELSE [a EXCEPT !.allow_test_run_until = t + ALLOW_TEST_RUN_MINUTES]

history_status_denial_disables(outcome) ==
    CASE outcome \in {"TooManyErrors", "RateLimited"} -> "disabled"
      [] outcome = "Success" -> "success"
      [] OTHER -> "error"

\* The status start_workflow closes the history entry with.
history_status(outcome) ==
    CASE outcome = "TooManyErrors" -> "disabled"
      [] outcome = "Success" -> "success"
      [] OTHER -> "error"

\* The exceptions the except clauses of start_workflow catch:
\* AutomationWorkflowTooManyErrors, then DispatchException and
\* AutomationWorkflowBeforeRunError, then Exception.
Caught == {"TooManyErrors", "DispatchException", "RateLimited", "Exception"}

\* What start_workflow raises to its caller.
start_workflow_raises(outcome) ==
    IF outcome = "Success" \/ outcome \in Caught THEN NoError ELSE outcome

create_workflow_history_always(h, is_simulation) == <<"started">> \o h

\* create_workflow_history, as start_workflow calls it: no entry in a
\* simulation.
create_workflow_history(h, is_simulation) ==
    IF is_simulation THEN h ELSE <<"started">> \o h

\* The finally clause of start_workflow: the entry created by the call is
\* saved with the status.
close_workflow_history(h, is_simulation, status) ==
    IF is_simulation THEN h ELSE <<status>> \o Tail(h)

before_run_rate_limit_first(statuses_all, data, t) ==
    IF rate_limited(data, t) THEN "RateLimited"
    ELSE IF _check_too_many_errors(statuses_all) THEN "TooManyErrors"
    ELSE NoError

\* before_run, after the reset: the check that raises, the breaker before
\* the rate limit.
before_run(statuses_all, data, t) ==
    IF _check_too_many_errors(statuses_all) THEN "TooManyErrors"
    ELSE IF rate_limited(data, t) THEN "RateLimited"
    ELSE NoError

\* start_workflow, with before_run; dispatch is what dispatch_node of the
\* trigger does when both checks pass.
start_workflow(workflow, simulate_until_node, dispatch) ==
    LET original_workflow == get_original_workflow(workflow)
        is_simulation == simulate_until_node # None
        created == create_workflow_history(history, is_simulation)
        denial == before_run(created, window, now)
        tooMany == denial = "TooManyErrors"
        limited == denial = "RateLimited"
        outcome == IF tooMany THEN "TooManyErrors"
                   ELSE IF limited THEN "RateLimited" ELSE dispatch
        disabled == IF tooMany THEN disable_workflow(wfState, workflow) ELSE wfState
    IN /\ armed' = reset_workflow_temporary_states(armed)
       /\ window' = IF tooMany \/ limited THEN window ELSE _check_is_rate_limited_value(window, now)
       /\ admitted' = IF tooMany \/ limited THEN admitted ELSE Append(admitted, now)
       /\ wfState' = disabled
       /\ history' = close_workflow_history(created, is_simulation,
                                             history_status(outcome))
       /\ lastRun' = [kind |-> workflow, simulate |-> is_simulation,
                      outcome |-> outcome, at |-> now,
                      history_workflow |-> IF is_simulation THEN NoWorkflow
                                           ELSE original_workflow,
                      raised |-> start_workflow_raises(outcome),
                      pre |-> [history |-> history, window |-> window,
                               admitted |-> admitted, wfState |-> wfState],
                      post |-> disabled]
       /\ UNCHANGED now

\* publish, with clean_up_previously_published_automations: the previous
\* copy is disabled and a new copy, Live, becomes the published workflow.
publish ==
    /\ wfState' = [wfState EXCEPT !.published = "live"]
    /\ UNCHANGED <<now, window, history, armed, admitted, lastRun>>

\* update_workflow(state = ...): the state is set on the published copy only.
update_workflow(state) ==
    /\ wfState' = IF get_published_workflow(wfState) # NoWorkflow
                  THEN [wfState EXCEPT !.published = state] ELSE wfState
    /\ UNCHANGED <<now, window, history, armed, admitted, lastRun>>

\* toggle_test_run; the run it may schedule is a later StartWorkflow.
toggle_test_run(simulate_until_node) ==
    /\ armed' = IF armed.simulate_until_node # None \/ armed.allow_test_run_until # None
                THEN reset_workflow_temporary_states(armed)
                ELSE set_workflow_temporary_states(armed, simulate_until_node, now)
    /\ UNCHANGED <<now, window, history, wfState, admitted, lastRun>>

RunInit ==
    /\ nodes = InitNodes
    /\ lastNode = 1
    /\ last = NoOp
    /\ dispatch_context = NoDispatch
    /\ router = NoRouter
    /\ InitOther
    /\ InitRun

StartWorkflow(workflow, simulate_until_node, dispatch) ==
    /\ workflow = "published" => get_published_workflow(wfState) # NoWorkflow
    /\ workflow = "published" => simulate_until_node = None
    /\ simulate_until_node = None => Len(history) < MaxHistory
    /\ start_workflow(workflow, simulate_until_node, dispatch)
    /\ UNCHANGED <<graphVars, dispatchVars, otherVars>>

Publish ==
    /\ publish
    /\ UNCHANGED <<graphVars, dispatchVars, otherVars>>

UpdateWorkflow(state) ==
    /\ update_workflow(state)
    /\ UNCHANGED <<graphVars, dispatchVars, otherVars>>

ToggleTestRun(simulate_until_node) ==
    /\ toggle_test_run(simulate_until_node)
    /\ UNCHANGED <<graphVars, dispatchVars, otherVars>>

Tick ==
    /\ now < MaxTime
    /\ now' = now + 1
    /\ UNCHANGED <<window, history, wfState, armed, admitted, lastRun, graphVars, dispatchVars, otherVars>>

RunNext ==
    \/ \E workflow \in Workflows, simulate_until_node \in {None} \cup Live(nodes),
          dispatch \in DispatchOutcomes :
            StartWorkflow(workflow, simulate_until_node, dispatch)
    \/ Publish
    \/ \E state \in WorkflowStates : UpdateWorkflow(state)
    \/ \E simulate_until_node \in {None} \cup Live(nodes) :
            ToggleTestRun(simulate_until_node)
    \/ Tick

RunSpec == RunInit /\ [][RunNext]_vars

---------------------------------------------------------------------------
(* Properties of the run controller (RunSpec) *)

Ran == lastRun.kind # "none"

\* The admitted attempts with a timestamp in the window of length
\* AUTOMATION_WORKFLOW_RATE_LIMIT_CACHE_EXPIRY_SECONDS that ends at t.
AdmittedIn(adm, t) ==
    Cardinality({i \in DOMAIN adm :
        /\ adm[i] > t - AUTOMATION_WORKFLOW_RATE_LIMIT_CACHE_EXPIRY_SECONDS
        /\ adm[i] <= t})

\* C8: an attempt that reaches the rate limiter at time t is admitted iff
\* fewer than the maximum of previously admitted attempts lie in the window
\* ending at t; a denied attempt fails with RateLimited and leaves the window
\* as it was; no window of that length ever holds more admitted attempts
\* than the maximum.
C8_RateLimit ==
    /\ (Ran /\ lastRun.outcome # "TooManyErrors") =>
          LET fewer == AdmittedIn(lastRun.pre.admitted, lastRun.at)
                          < AUTOMATION_WORKFLOW_RATE_LIMIT_MAX_RUNS
          IN /\ (lastRun.outcome # "RateLimited") <=> fewer
             /\ lastRun.outcome = "RateLimited" =>
                   /\ window = lastRun.pre.window
                   /\ admitted = lastRun.pre.admitted
             /\ lastRun.outcome # "RateLimited" =>
                   /\ admitted = Append(lastRun.pre.admitted, lastRun.at)
                   /\ window[Len(window)] = lastRun.at
    /\ \A t \in 1..now :
          AdmittedIn(admitted, t) <= AUTOMATION_WORKFLOW_RATE_LIMIT_MAX_RUNS

C8_Witness ==
    /\ Ran
    /\ lastRun.outcome = "RateLimited"
    /\ AdmittedIn(admitted, now) = AUTOMATION_WORKFLOW_RATE_LIMIT_MAX_RUNS
    /\ Len(admitted) > AUTOMATION_WORKFLOW_RATE_LIMIT_MAX_RUNS

\* The statuses _check_too_many_errors reads in the last start_workflow call.
HistoryAtCheck ==
    IF lastRun.simulate THEN lastRun.pre.history
    ELSE <<"started">> \o lastRun.pre.history

IgnoreLeadingStarted(h) == IF h # <<>> /\ h[1] = "started" THEN Tail(h) ELSE h

StreakOfErrors(h) ==
    LET recent == IgnoreLeadingStarted(h)
    IN /\ Len(recent) >= AUTOMATION_WORKFLOW_MAX_CONSECUTIVE_ERRORS
       /\ \A i \in 1..AUTOMATION_WORKFLOW_MAX_CONSECUTIVE_ERRORS : recent[i] = "error"

\* C9: a start attempt, simulated or not, is denied with TooManyErrors
\* exactly when, a leading Started entry ignored, the history has at least
\* the threshold of entries and the threshold most recent are all Error.
C9_CircuitBreaker ==
    Ran => (lastRun.outcome = "TooManyErrors" <=> StreakOfErrors(HistoryAtCheck))

Denied == Ran /\ lastRun.outcome = "TooManyErrors"

\* C10: when the circuit breaker denies a run, the draft workflow and its
\* published copy, if there is one, are both Disabled at the end of the call,
\* for a run of the published copy and for a test run of the draft.
C10_BothDisabled ==
    Denied =>
        /\ lastRun.post.draft = "disabled"
        /\ lastRun.post.published # NoWorkflow => lastRun.post.published = "disabled"

\* C10, amended: when the circuit breaker denies a run, the workflow that was
\* run and its original (draft) workflow are Disabled at the end of the call;
\* a denied test run of the draft leaves the state of the published copy as
\* it was.
C10_RunAndOriginalDisabled ==
    Denied =>
        /\ lastRun.post[lastRun.kind] = "disabled"
        /\ lastRun.post.draft = "disabled"
        /\ lastRun.kind = "draft" =>
              lastRun.post.published = lastRun.pre.wfState.published

C10_Witness ==
    /\ Denied
    /\ lastRun.kind = "published"
    /\ lastRun.pre.wfState = [draft |-> "draft", published |-> "live"]
    /\ lastRun.post = [draft |-> "disabled", published |-> "disabled"]

Recorded == Ran /\ ~lastRun.simulate

Simulated == Ran /\ lastRun.simulate

\* C25: every start_workflow call that is not a simulation adds exactly one
\* entry to the history, and adds it to the history of the original (draft)
\* workflow, also when the published copy is run; a simulation adds none;
\* the entries that were there stay as they were.
C25_OneHistoryEntry ==
    /\ Recorded =>
          /\ Len(history) = Len(lastRun.pre.history) + 1
          /\ Tail(history) = lastRun.pre.history
          /\ lastRun.history_workflow = "draft"
    /\ Simulated =>
          /\ history = lastRun.pre.history
          /\ lastRun.history_workflow = NoWorkflow

C25_Witness ==
    /\ Recorded
    /\ lastRun.kind = "published"
    /\ Len(history) = 2

C25_WitnessSimulated ==
    /\ Simulated
    /\ Len(history) = 2

\* C26: every start_workflow call that is not a simulation leaves its
\* history entry closed, never Started: Success exactly when the before-run
\* checks and the dispatch raised nothing, Disabled exactly when the run was
\* denied for too many consecutive errors, Error for every other failure
\* (rate limited, a dispatch failure, an unexpected exception); and no
\* start_workflow call raises to its caller.
C26_TerminalStatus ==
    /\ \A i \in 1..Len(history) : history[i] # "started"
    /\ Recorded =>
          /\ history[1] = "success" <=> lastRun.outcome = "Success"
          /\ history[1] = "disabled" <=> lastRun.outcome = "TooManyErrors"
          /\ lastRun.outcome \in {"RateLimited", "DispatchException", "Exception"}
                => history[1] = "error"
    /\ Ran => lastRun.raised = NoError

C26_Witness ==
    /\ Recorded
    /\ lastRun.outcome = "TooManyErrors"
    /\ history[1] = "disabled"

C26_WitnessRateLimited ==
    /\ Recorded
    /\ lastRun.outcome = "RateLimited"
    /\ history[1] = "error"

C26_WitnessUnexpected ==
    /\ Recorded
    /\ lastRun.outcome = "Exception"
    /\ history[1] = "error"

---------------------------------------------------------------------------
(* DispatchSpec: one run of AutomationNodeHandler.dispatch_node, started   *)
(* by start_workflow on the trigger, on each workflow graph: the graphs of *)
(* OpSpec and those one move_node leaves behind.  The recursion is a stack *)
(* of frames, a frame holding the nodes its `for` loop has yet to visit.   *)

\* The run started at a node that follows itself, where there is one.
get_trigger_or_loop(ns, w) ==
    IF \E n \in Live(ns) : ns[n].prev = n
    THEN CHOOSE n \in Live(ns) : ns[n].prev = n
    ELSE CHOOSE t \in WorkflowNodes(ns, w) : is_workflow_trigger(ns[t].kind)

get_trigger(ns, w) ==
    CHOOSE t \in WorkflowNodes(ns, w) : is_workflow_trigger(ns[t].kind)

\* next_nodes = node.get_next_nodes(dispatch_result.output_uid)
dispatch_next_nodes_every_branch(ns, node, output_uid) ==
    get_next_nodes(ns, ns[node].wf, node, NoOutput)

dispatch_next_nodes(ns, node, output_uid) ==
    get_next_nodes(ns, ns[node].wf, node, output_uid)

\* for next_node in next_nodes: the loop moves on from the node it visited.
loop_stays(frame, node) == frame

loop_advance(frame, node) == frame \ {node}

\* A frame whose loop is exhausted returns to its caller.
RECURSIVE return_from(_)
return_from(stack) ==
    IF stack = <<>> THEN <<>>
    ELSE IF stack[Len(stack)] = {} THEN return_from(SubSeq(stack, 1, Len(stack) - 1))
    ELSE stack

\* The frames after `node` of the innermost frame was dispatched with
\* `output_uid`: the simulated node returns early, any other node recurses
\* into its successors.
dispatch_node(ns, d, node, output_uid) ==
    LET top == Len(d.stack)
        visited == [d.stack EXCEPT ![top] = loop_advance(d.stack[top], node)]
        is_until == d.simulate_until_node # None /\ d.simulate_until_node = node
        stack == IF is_until THEN return_from(visited)
                 ELSE return_from(Append(visited, dispatch_next_nodes(ns, node, output_uid)))
    IN  [d EXCEPT
            !.stack = stack,
            !.trace = Append(d.trace, [node |-> node, output_uid |-> output_uid]),
            !.refreshed = IF is_until THEN d.refreshed \cup {node} ELSE d.refreshed,
            !.status = IF stack = <<>> THEN "done" ELSE "running"]

\* What node_type.dispatch raises: the service is misconfigured, another
\* dispatch failure, an unexpected exception.
DispatchExceptions ==
    {"ServiceImproperlyConfiguredDispatchException", "DispatchException", "Exception"}

NoException == [type |-> NoError, node |-> None]

except_translates_every_exception(e, node) ==
    [type |-> "AutomationNodeMisconfiguredService", node |-> node]

\* The except clause of dispatch_node, in the call for node.
except_translates(e, node) ==
    IF e.type = "ServiceImproperlyConfiguredDispatchException"
    THEN [type |-> "AutomationNodeMisconfiguredService", node |-> node]
    ELSE e

\* The exception leaves the call of dispatch_node for node and each of the
\* `depth` calls around it, the calls for its predecessors; the try
\* statement of each of them sees it.
RECURSIVE propagate(_, _, _, _)
propagate(ns, e, node, depth) ==
    LET seen == except_translates(e, node)
    IN IF depth = 0 \/ ns[node].prev = None THEN seen
       ELSE propagate(ns, seen, ns[node].prev, depth - 1)

\* node_type.dispatch(node, dispatch_context) raises: the run is abandoned.
dispatch_raises(ns, d, node, exception) ==
    [d EXCEPT
        !.stack = <<>>,
        !.raised = node,
        !.exception = exception,
        !.error = propagate(ns, [type |-> exception, node |-> node], node,
                            Len(d.stack) - 1),
        !.dispatched_before = d.trace,
        !.status = "failed"]

\* The node created last has the highest order.
created_last(ns) == CHOOSE i \in Live(ns) : \A j \in Live(ns) : j <= i

DispatchInit ==
    /\ \/ /\ \E g \in Graphs : nodes \in WithOneDeleted(g)
          /\ lastNode = created_last(nodes)
       \/ \E g \in Graphs : \E n \in 2..Len(g), a \in 1..Len(g), q \in {NoOutput} \cup Outputs :
             /\ nodes = move_node(g, n, a, q)
             /\ lastNode \in last_after_move(g, Len(g), n, a)
    /\ last = NoOp
    /\ dispatch_context = NoDispatch
    /\ router = NoRouter
    /\ InitOther
    /\ InitRun

StartDispatch(simulate_until_node) ==
    /\ dispatch_context.status = "idle"
    /\ simulate_until_node \in {None} \cup Live(nodes)
    /\ dispatch_context' =
          [status |-> "running",
           simulate_until_node |-> simulate_until_node,
           stack |-> <<{get_trigger(nodes, 1)}>>,
           trace |-> <<>>,
           refreshed |-> {},
           raised |-> None,
           exception |-> NoError,
           error |-> NoException,
           dispatched_before |-> <<>>]
    /\ UNCHANGED <<graphVars, runVars, router, otherVars>>

DispatchNode(node, output_uid) ==
    /\ dispatch_context.status = "running"
    /\ Len(dispatch_context.trace) < MaxTrace
    /\ node \in dispatch_context.stack[Len(dispatch_context.stack)]
    /\ dispatch_context' = dispatch_node(nodes, dispatch_context, node, output_uid)
    /\ UNCHANGED <<graphVars, runVars, router, otherVars>>

DispatchRaises(node, exception) ==
    /\ dispatch_context.status = "running"
    /\ Len(dispatch_context.trace) < MaxTrace
    /\ node \in dispatch_context.stack[Len(dispatch_context.stack)]
    /\ dispatch_context' = dispatch_raises(nodes, dispatch_context, node, exception)
    /\ UNCHANGED <<graphVars, runVars, router, otherVars>>

\* The graph is edited before the run starts: the mutation operations of Spec,
\* on the graphs small enough for them.
EditGraph ==
    /\ dispatch_context.status = "idle"
    /\ Len(nodes) <= MaxNodes
    /\ Next

DispatchNext ==
    \/ EditGraph
    \/ \E simulate_until_node \in {None} \cup Ids(nodes) : StartDispatch(simulate_until_node)
    \/ \E node \in Ids(nodes), output_uid \in Outputs : DispatchNode(node, output_uid)
    \/ \E node \in Ids(nodes), exception \in DispatchExceptions :
            DispatchRaises(node, exception)

DispatchSpec == DispatchInit /\ [][DispatchNext]_vars

(* Dispatch properties *)

Dispatching == dispatch_context.status # "idle"

Trace == dispatch_context.trace

Dispatched == {Trace[i].node : i \in 1..Len(Trace)}

Until == dispatch_context.simulate_until_node

\* The position of the simulated node in the trace, 0 when it has not run.
UntilAt ==
    IF \E i \in 1..Len(Trace) : Trace[i].node = Until
    THEN CHOOSE i \in 1..Len(Trace) : Trace[i].node = Until
    ELSE 0

\* C11: in a run with a simulate-until target, once the target has been
\* dispatched no further node is dispatched in that run, and the target's
\* stored sample output is refreshed.
C11_SimulateStops ==
    (Dispatching /\ UntilAt # 0) =>
        /\ UntilAt = Len(Trace)
        /\ Until \in dispatch_context.refreshed

\* The chain part of C11: nothing behind the target is dispatched.
C11_NoSuccessorOfTarget ==
    (Dispatching /\ UntilAt # 0) =>
        /\ \A i \in 1..Len(Trace) : nodes[Trace[i].node].prev # Until
        /\ Until \in dispatch_context.refreshed
        /\ dispatch_context.raised # Until

\* The live nodes attached to branch `output_uid` of `node`.
OnBranch(node, output_uid) ==
    {c \in Live(nodes) : nodes[c].prev = node /\ nodes[c].out = output_uid}

\* C12: when node n returns output_uid u, exactly the live nodes with
\* previous_node_id = n and previous_node_output = u are dispatched next, all
\* of them; no node on another branch of n, nor a descendant of one, is
\* dispatched: every dispatched node but the trigger hangs on the branch its
\* predecessor returned earlier in the run.
C12_BranchSelection ==
    Dispatching =>
        /\ \A i \in 1..Len(Trace) :
              LET n == Trace[i].node IN
              /\ n \in Live(nodes)
              /\ \/ i = 1 /\ n = get_trigger(nodes, 1)
                 \/ \E j \in 1..(i - 1) :
                       n \in OnBranch(Trace[j].node, Trace[j].output_uid)
        /\ dispatch_context.status = "done" =>
              \A i \in 1..Len(Trace) :
                  Trace[i].node # Until =>
                      OnBranch(Trace[i].node, Trace[i].output_uid) \subseteq Dispatched

\* A finished run in which a node returned "k", the two nodes of its branch
\* "k" ran and the node on its branch "" did not.
C12_Witness ==
    /\ dispatch_context.status = "done"
    /\ \E i \in 1..Len(Trace) :
          /\ Trace[i].output_uid = "k"
          /\ Cardinality(OnBranch(Trace[i].node, "k")) = 2
          /\ OnBranch(Trace[i].node, "k") \subseteq Dispatched
          /\ OnBranch(Trace[i].node, "") # {}
          /\ OnBranch(Trace[i].node, "") \cap Dispatched = {}

\* C14: in a single run no node is dispatched more than once, whatever the
\* graph the mutation operations left behind, fan-out included.
C14_DispatchedOnce ==
    Dispatching =>
        /\ \A i, j \in 1..Len(Trace) : Trace[i].node = Trace[j].node => i = j
        /\ dispatch_context.raised \notin Dispatched

\* A finished run over a branch that fans out, in a graph that also holds a
\* node pointing at itself.
C14_Witness ==
    /\ dispatch_context.status = "done"
    /\ \E i \in 1..Len(Trace) :
          /\ Cardinality(OnBranch(Trace[i].node, Trace[i].output_uid)) >= 2
          /\ OnBranch(Trace[i].node, Trace[i].output_uid) \subseteq Dispatched
    /\ \E n \in Live(nodes) : nodes[n].prev = n

Failed == dispatch_context.status = "failed"

Misconfigured ==
    dispatch_context.exception = "ServiceImproperlyConfiguredDispatchException"

\* C27: when the service of node n raises as misconfigured, the run fails
\* with AutomationNodeMisconfiguredService naming n, through however many
\* enclosing dispatch_node calls the error passes; any other failure leaves
\* the run as it was raised; in both cases no successor of n is dispatched,
\* and the nodes dispatched before n stay dispatched.
C27_Misconfigured ==
    Failed =>
        /\ Misconfigured =>
              dispatch_context.error =
                  [type |-> "AutomationNodeMisconfiguredService",
                   node |-> dispatch_context.raised]
        /\ ~Misconfigured =>
              dispatch_context.error =
                  [type |-> dispatch_context.exception,
                   node |-> dispatch_context.raised]
        /\ \A i \in 1..Len(Trace) :
              nodes[Trace[i].node].prev # dispatch_context.raised
        /\ dispatch_context.stack = <<>>
        /\ Trace = dispatch_context.dispatched_before

\* A misconfigured node two calls deep, after two nodes were dispatched.
C27_Witness ==
    /\ Failed
    /\ Misconfigured
    /\ Len(Trace) >= 2
    /\ nodes[dispatch_context.raised].prev # None
    /\ nodes[dispatch_context.raised].prev # dispatch_context.raised
    /\ nodes[nodes[dispatch_context.raised].prev].prev # None
    /\ \E n \in Live(nodes) : nodes[n].prev = dispatch_context.raised

C27_WitnessOther ==
    /\ Failed
    /\ dispatch_context.exception = "DispatchException"
    /\ Len(Trace) >= 2
    /\ \E n \in Live(nodes) : nodes[n].prev = dispatch_context.raised

---------------------------------------------------------------------------
(* RouterSpec: the dispatch of a CoreRouterService over its edges.         *)
(* An edge is a row [uid, label, order, condition]; the rows are kept in   *)
(* creation order and a condition is the value its formula resolves to.    *)

EdgeLabels == {"", "Default"}

\* uid = models.UUIDField(default=uuid.uuid4): one fresh uid per edge.
EdgeUids == <<"a", "b", "c", "d", "e">>

EdgeRow(i, order, condition) ==
    [uid |-> EdgeUids[i], label |-> "Edge " \o EdgeUids[i], order |-> order,
     condition |-> condition]

EdgeTables ==
    UNION {{[i \in 1..n |-> EdgeRow(i, o[i], c[i])] :
               o \in [1..n -> 1..MaxOrder], c \in [1..n -> BOOLEAN]} : n \in 0..MaxEdges}

\* Meta.ordering = ("order",): service.edges.all() yields the edges lowest
\* order first; the database breaks a tie as it likes.
edges_in_creation_order(edges) == {[i \in 1..Len(edges) |-> i]}

edges_all(edges) ==
    {p \in [1..Len(edges) -> 1..Len(edges)] :
        /\ \A i, j \in 1..Len(edges) : p[i] = p[j] => i = j
        /\ \A i \in 1..(Len(edges) - 1) : edges[p[i]].order <= edges[p[i + 1]].order}

\* The first edge of the sequence `p` whose condition holds decides; the
\* default edge does when none holds.
router_dispatch(service, p) ==
    LET edges == service.edges
        truthful == {i \in 1..Len(edges) : edges[p[i]].condition}
    IN  IF truthful = {}
        THEN [output_uid |-> "", data |-> [edge |-> [label |-> service.default_edge_label]]]
        ELSE LET first == CHOOSE i \in truthful : \A j \in truthful : i <= j
                 edge == edges[p[first]]
             IN  [output_uid |-> edge.uid, data |-> [edge |-> [label |-> edge.label]]]

RouterInit ==
    /\ nodes = InitNodes
    /\ lastNode = 1
    /\ last = NoOp
    /\ dispatch_context = NoDispatch
    /\ \E edges \in EdgeTables, default_edge_label \in EdgeLabels :
          router = [default_edge_label |-> default_edge_label, edges |-> edges,
                    result |-> NoResult]
    /\ InitOther
    /\ InitRun

RouterDispatch ==
    /\ router.result = NoResult
    /\ \E p \in edges_all(router.edges) :
          router' = [router EXCEPT !.result = router_dispatch(router, p)]
    /\ UNCHANGED <<graphVars, runVars, dispatch_context, otherVars>>

RouterNext == RouterDispatch

RouterSpec == RouterInit /\ [][RouterNext]_vars

Truthful == {i \in 1..Len(router.edges) : router.edges[i].condition}

\* C13: a router returns as output_uid the uid of the first edge, in
\* ascending edge order, whose condition is true, with data naming that
\* edge's label; when no condition is true it returns output_uid "" and data
\* naming the default edge label.
C13_RouterDispatch ==
    router.result # NoResult =>
        IF Truthful = {}
        THEN /\ router.result.output_uid = ""
             /\ router.result.data.edge.label = router.default_edge_label
        ELSE \E i \in Truthful :
                /\ \A j \in Truthful : router.edges[i].order <= router.edges[j].order
                /\ router.result.output_uid = router.edges[i].uid
                /\ router.result.data.edge.label = router.edges[i].label

\* The router took its second edge: the first one created holds too but has
\* a higher order, and an edge of a lower order still does not hold.
C13_Witness ==
    /\ router.result # NoResult
    /\ Len(router.edges) = 3
    /\ router.edges[1].condition /\ router.edges[2].condition
    /\ ~router.edges[3].condition
    /\ router.edges[3].order < router.edges[2].order
    /\ router.edges[2].order < router.edges[1].order
    /\ router.result.output_uid = router.edges[2].uid

\* The router fell back to its default edge, every condition being false.
C13_WitnessDefault ==
    /\ router.result # NoResult
    /\ Len(router.edges) >= 2
    /\ Truthful = {}
    /\ router.default_edge_label = "Default"
    /\ router.result.output_uid = ""

---------------------------------------------------------------------------
(* Replace and delete properties, on OpSpec *)

Replaced == last.op = "replace" /\ last.error = NoError

\* The node a replace trashed, and the one it created, alone in its slot.
AloneInSlot(ns, node) ==
    \A i \in Live(ns) : (ns[i].prev = ns[node].prev /\ ns[i].out = ns[node].out) => i = node

FollowersOf(ns, node) == {i \in Live(ns) : ns[i].prev = node}

\* C15: after Replace(X, newType) of an action X in a chain P -> X -> S the
\* replacement N follows P and S follows N; X is soft-deleted, every other
\* node keeps its predecessor and the number of live nodes is unchanged.
C15_ReplaceRelinks ==
    (/\ Replaced
     /\ last.pre[last.y].kind = "action"
     /\ AloneInSlot(last.pre, last.y)) =>
        LET X == last.y
            N == last.x
            pre == last.pre
        IN  /\ N \in Live(nodes)
            /\ nodes[N].prev = pre[X].prev
            /\ \A S \in FollowersOf(pre, X) : nodes[S].prev = N
            /\ nodes[X].trashed # NotTrashed
            /\ \A i \in Ids(pre) \ (FollowersOf(pre, X) \cup {X}) : nodes[i].prev = pre[i].prev
            /\ Cardinality(Live(nodes)) = Cardinality(Live(pre))

\* X replaced in the middle of a chain P -> X -> S of a well-formed graph.
C15_Witness ==
    /\ Replaced
    /\ WellFormed(last.pre)
    /\ last.pre[last.y].kind = "action"
    /\ last.pre[last.pre[last.y].prev].kind = "action"
    /\ FollowersOf(last.pre, last.y) # {}
    /\ \A S \in FollowersOf(last.pre, last.y) : nodes[S].prev = last.x

\* The order field as a term: the value `node` holds, a fresh value just
\* before it (get_unique_order_before_node), or one after every node of the
\* workflow (get_last_order).
OrderOf(node) == [rel |-> "same", node |-> node]

UniqueOrderBefore(node) == [rel |-> "before", node |-> node]

LastOrder == [rel |-> "last", node |-> None]

\* create_node: the order the new node is saved with, `order` being the
\* keyword argument, None when it is not passed.
create_order(before, order) ==
    IF before # None THEN UniqueOrderBefore(before)
    ELSE IF order = None THEN LastOrder
    ELSE order

\* replace_node calls create_node(before=node, order=node.order).
replace_order(node) == create_order(node, OrderOf(node))

\* C16: Replace(node, newType) creates the new node exactly where node was:
\* same previous_node_id, same previous_node_output and same order value as
\* node had immediately before.
C16_ReplaceSamePosition ==
    Replaced =>
        /\ nodes[last.x].prev = last.pre[last.y].prev
        /\ nodes[last.x].out = last.pre[last.y].out
        /\ replace_order(last.y) = OrderOf(last.y)

\* The pointer half of C16.
C16_ReplaceSameSlot ==
    Replaced =>
        /\ nodes[last.x].prev = last.pre[last.y].prev
        /\ nodes[last.x].out = last.pre[last.y].out

Deleted == last.op = "delete" /\ last.error = NoError

\* C19: delete_node of an action node X soft-deletes X and changes no other
\* node's previous_node_id or previous_node_output: the nodes that followed
\* X still reference X.
C19_DeleteNoRelink ==
    Deleted =>
        /\ last.pre[last.x].kind = "action"
        /\ nodes[last.x].trashed # NotTrashed
        /\ \A i \in Ids(nodes) :
              /\ nodes[i].prev = last.pre[i].prev
              /\ nodes[i].out = last.pre[i].out
        /\ FollowersOf(nodes, last.x) = FollowersOf(last.pre, last.x)

\* An action node with a live follower was deleted; the follower still
\* points at it.
C19_Witness ==
    /\ Deleted
    /\ \E S \in Live(nodes) : nodes[S].prev = last.x
    /\ last.x \notin Live(nodes)

\* The node type a create_node call was made with.
CreateKind == IF last.error = NoError THEN nodes[last.x].kind ELSE last.kind

\* C20: create_node with a trigger node type always fails with
\* AutomationTriggerModificationDisallowed (TriggerCreationDisallowed);
\* no node is created and no existing node is relinked.
C20_TriggerCreateRefused ==
    (last.op = "create" /\ is_workflow_trigger(CreateKind)) =>
        /\ last.error = "AutomationTriggerModificationDisallowed"
        /\ nodes = last.pre

\* A trigger type was refused before an action node in a named branch, where
\* an accepted create would have relinked that node.
C20_Witness ==
    /\ last.op = "create"
    /\ last.error # NoError
    /\ is_workflow_trigger(last.kind)
    /\ last.y # None
    /\ nodes[last.y].out = "k"
    /\ Len(nodes) = Len(last.pre)

\* The workflow a create_node call was made with.
CreateWorkflow == IF last.error = NoError THEN nodes[last.x].wf ELSE last.wf

\* C21: create_node of an action type with before given fails with
\* AutomationNodeBeforeInvalid when before belongs to another workflow than
\* the one supplied and when before has no predecessor; no node is created
\* and no predecessor or branch key changes.
C21_BeforeInvalid ==
    (/\ last.op = "create"
     /\ last.y # None
     /\ ~is_workflow_trigger(CreateKind)
     /\ \/ CreateWorkflow # last.pre[last.y].wf
        \/ last.pre[last.y].prev = None) =>
        /\ last.error = "AutomationNodeBeforeInvalid"
        /\ nodes = last.pre

\* An action type was refused before the trigger of a workflow whose trigger
\* has a follower.
C21_Witness ==
    /\ last.op = "create"
    /\ last.error = "AutomationNodeBeforeInvalid"
    /\ last.y # None
    /\ last.wf = nodes[last.y].wf
    /\ nodes[last.y].prev = None
    /\ FollowersOf(nodes, last.y) # {}

\* An action type was refused before an action node of another workflow.
C21_WitnessOtherWorkflow ==
    /\ last.op = "create"
    /\ last.error = "AutomationNodeBeforeInvalid"
    /\ last.y # None
    /\ last.wf # nodes[last.y].wf
    /\ nodes[last.y].prev # None

\* The node type a replace_node call was made with.
ReplaceKind == IF last.error = NoError THEN nodes[last.x].kind ELSE last.kind

\* C22: replace_node fails with AutomationNodeNotReplaceable whenever the
\* new type is not in the category of the node's type; then no node is
\* created, the node is not soft-deleted and no pointer changes.
C22_NotReplaceable ==
    (/\ last.op = "replace"
     /\ is_workflow_trigger(ReplaceKind) # is_workflow_trigger(last.pre[last.y].kind)) =>
        /\ last.error = "AutomationNodeNotReplaceable"
        /\ nodes = last.pre
        /\ last.y \in Live(nodes)

\* An action node with a follower was to become a trigger, and was refused.
C22_Witness ==
    /\ last.op = "replace"
    /\ last.error = "AutomationNodeNotReplaceable"
    /\ nodes[last.y].kind = "action"
    /\ is_workflow_trigger(last.kind)
    /\ FollowersOf(nodes, last.y) # {}

CreatedBefore == last.op = "create" /\ last.error = NoError /\ last.y # None

\* C30: a create_node call with before = B that is not refused leaves the
\* new node with the (previous_node_id, previous_node_output) B had before
\* the call, whatever previous_node_id and previous_node_output the caller
\* passed along.
C30_CreateBeforeInherits ==
    CreatedBefore =>
        /\ nodes[last.x].prev = last.pre[last.y].prev
        /\ nodes[last.x].out = last.pre[last.y].out

\* What create_node with before = B does with the caller's fields: a
\* previous_node_id of the caller is kept, and a previous_node_output of the
\* caller is kept when B was on the default branch.
C30_CreateBeforeKeepsExtras ==
    CreatedBefore =>
        /\ nodes[last.x].prev =
              IF last.g # Absent THEN last.g ELSE last.pre[last.y].prev
        /\ nodes[last.x].out =
              IF last.pre[last.y].out # "" THEN last.pre[last.y].out
              ELSE IF last.q # NoOutput THEN last.q ELSE ""

\* A create before B with a previous_node_id of the caller's.
C30_Witness ==
    /\ CreatedBefore
    /\ last.g # Absent
    /\ last.g # last.pre[last.y].prev
    /\ nodes[last.x].prev = last.g
    /\ nodes[last.y].prev = last.x

Moved == last.op = "move" /\ last.error = NoError

\* The nodes that followed the moved node before the call, on any branch.
OriginNextNodes == get_next_nodes(last.pre, last.pre[last.x].wf, last.x, NoOutput)

\* The nodes move_node reads as following after_node on the destination
\* branch in the graph before the call.
OnDestinationBranch(output_uid) ==
    get_next_nodes(last.pre, last.pre[last.y].wf, last.y, output_uid) \ {last.x}

\* The move puts the node back after the predecessor it had, on a branch
\* move_node reads the origin's next nodes from.
BackUnderPredecessor ==
    /\ last.y = last.pre[last.x].prev
    /\ last.q \in {NoOutput, last.pre[last.x].out}

\* C31: after move_node every node that followed the moved node before the
\* call, on any branch, follows the node's former predecessor on the node's
\* former branch key.
C31_OriginClosed ==
    Moved =>
        \A i \in OriginNextNodes :
            /\ nodes[i].prev = last.pre[last.x].prev
            /\ nodes[i].out = last.pre[last.x].out

\* The origin gap is closed by every move but the one that puts the node
\* back after its own predecessor.
C31_OriginClosedElsewhere ==
    (Moved /\ ~BackUnderPredecessor) =>
        \A i \in OriginNextNodes :
            /\ nodes[i].prev = last.pre[last.x].prev
            /\ nodes[i].out = last.pre[last.x].out

\* A node with followers on two branches was moved after another node.
C31_Witness ==
    /\ Moved
    /\ ~BackUnderPredecessor
    /\ \E i, j \in OriginNextNodes : last.pre[i].out # last.pre[j].out
    /\ last.pre[last.x].out = "k"
    /\ \A i \in OriginNextNodes : nodes[i].out = "k"

\* The output key move_node leaves on the moved node.
MovedOut == IF Falsy(last.q) THEN "" ELSE last.q

\* The destination branch as the claim names it: the key given, the empty
\* branch when none is.
DestinationBranch == IF last.q = NoOutput THEN "" ELSE last.q

\* C32: after move_node(node, after_node, key) the node follows after_node
\* on the key, or on "" without one; exactly the nodes that followed
\* after_node on the destination branch (the key, the empty branch when no
\* key is given) follow the node with an empty key; the nodes that
\* followed after_node on another branch keep predecessor and key.
C32_DestinationOneBranch ==
    (Moved /\ last.y # last.x) =>
        /\ nodes[last.x].prev = last.y
        /\ nodes[last.x].out = MovedOut
        /\ \A i \in OnDestinationBranch(DestinationBranch) :
              nodes[i].prev = last.x /\ nodes[i].out = ""
        /\ \A o \in Outputs \ {DestinationBranch} :
              \A i \in OnDestinationBranch(o) :
                  nodes[i].prev = last.y /\ nodes[i].out = o

\* C32 for a move that names an output key, not after the node itself nor
\* back after its own predecessor.
C32_DestinationNamedKey ==
    (Moved /\ last.y # last.x /\ last.q # NoOutput /\ ~BackUnderPredecessor) =>
        /\ nodes[last.x].prev = last.y
        /\ nodes[last.x].out = MovedOut
        /\ \A i \in OnDestinationBranch(DestinationBranch) :
              nodes[i].prev = last.x /\ nodes[i].out = ""
        /\ \A o \in Outputs \ {DestinationBranch} :
              \A i \in OnDestinationBranch(o) :
                  nodes[i].prev = last.y /\ nodes[i].out = o

\* What move_node does without an output key: the nodes that followed
\* after_node on every branch follow the node, each with the key it had.
C32_DestinationNoKey ==
    (Moved /\ last.y # last.x /\ last.q = NoOutput /\ ~BackUnderPredecessor) =>
        /\ nodes[last.x].prev = last.y
        /\ nodes[last.x].out = ""
        /\ \A o \in Outputs : \A i \in OnDestinationBranch(o) :
              nodes[i].prev = last.x /\ nodes[i].out = o

\* A move onto the branch "k" of a node with followers on both branches.
C32_Witness ==
    /\ Moved
    /\ last.q = "k"
    /\ ~BackUnderPredecessor
    /\ OnDestinationBranch("k") # {}
    /\ OnDestinationBranch("") # {}
    /\ \A i \in OnDestinationBranch("k") : nodes[i].prev = last.x

---------------------------------------------------------------------------
(* PermSpec: the mutation entry points of AutomationNodeService called by  *)
(* a user whom CoreHandler.check_permissions denies, on each graph of      *)
(* OpSpec.  check_permissions raises; an entry point that raised before    *)
(* it reaches its handler call has changed nothing.                        *)

PermissionDenied == "PermissionException"

\* AutomationNodeHandler.update_next_nodes_values: each value names a node
\* and the previous_node_id and previous_node_output it is given.
RECURSIVE update_next_nodes_values(_, _)
update_next_nodes_values(ns, next_node_values) ==
    IF next_node_values = <<>> THEN ns
    ELSE LET v == Head(next_node_values)
         IN  update_next_nodes_values(
                 [ns EXCEPT ![v.id].prev = v.previous_node_id,
                            ![v.id].out = v.previous_node_output],
                 Tail(next_node_values))

\* The service entry point: whether it asks check_permissions at all.
checks_permissions(op) == op # "update_next_nodes_values"

\* A call by the denied user: what it raised and what it was called with.
Called(op, x, y, error) ==
    [op |-> op, pre |-> nodes, preLast |-> lastNode, x |-> x, y |-> y, error |-> error]

PermInit ==
    /\ \E g \in Graphs : nodes \in WithOneDeleted(g)
    /\ lastNode = created_last(nodes)
    /\ last = NoOp
    /\ dispatch_context = NoDispatch
    /\ router = NoRouter
    /\ InitOther
    /\ InitRun

\* Every entry point but update_next_nodes_values and create_node: the
\* permission check is the first thing that can fail.
DeniedCall(op, node, other) ==
    /\ last.op = "none"
    /\ checks_permissions(op)
    /\ node \in Live(nodes)
    /\ last' = Called(op, node, other, PermissionDenied)
    /\ UNCHANGED <<nodes, lastNode, runVars, dispatchVars, otherVars>>

\* create_node refuses a trigger type before it asks for the permission.
DeniedCreate(kind, before) ==
    /\ last.op = "none"
    /\ before # None => before \in Live(nodes)
    /\ last' = Called("create", None, before,
                      IF ~create_allowed(kind)
                      THEN "AutomationTriggerModificationDisallowed"
                      ELSE PermissionDenied)
    /\ UNCHANGED <<nodes, lastNode, runVars, dispatchVars, otherVars>>

\* update_next_nodes_values goes to the handler whoever calls it.
DeniedUpdateNextNodesValues(node, previous_node_id, previous_node_output) ==
    /\ last.op = "none"
    /\ node \in Live(nodes)
    /\ previous_node_id # None => previous_node_id \in Live(nodes)
    /\ IF checks_permissions("update_next_nodes_values")
       THEN /\ last' = Called("update_next_nodes_values", node, previous_node_id,
                              PermissionDenied)
            /\ UNCHANGED nodes
       ELSE /\ last' = Called("update_next_nodes_values", node, previous_node_id, NoError)
            /\ nodes' = update_next_nodes_values(nodes,
                   <<[id |-> node, previous_node_id |-> previous_node_id,
                      previous_node_output |-> previous_node_output]>>)
    /\ UNCHANGED <<lastNode, runVars, dispatchVars, otherVars>>

GuardedOps == {"update", "delete", "order", "duplicate", "replace", "move"}

PermNext ==
    \/ \E op \in GuardedOps, node \in Ids(nodes), other \in {None} \cup Ids(nodes) :
            DeniedCall(op, node, other)
    \/ \E kind \in Kinds, before \in {None} \cup Ids(nodes) : DeniedCreate(kind, before)
    \/ \E node \in Ids(nodes), previous_node_id \in {None} \cup Ids(nodes),
          previous_node_output \in Outputs :
            DeniedUpdateNextNodesValues(node, previous_node_id, previous_node_output)

PermSpec == PermInit /\ [][PermNext]_vars

\* C23: for every mutation entry point of the node service, when the
\* permission check denies the calling user the operation fails and no node,
\* pointer or order value is created or changed.
C23_DeniedNoEffect ==
    last.op # "none" =>
        /\ last.error # NoError
        /\ nodes = last.pre
        /\ lastNode = last.preLast

\* The same for the entry points that do ask check_permissions.
C23_DeniedNoEffectWhereChecked ==
    (last.op # "none" /\ last.op # "update_next_nodes_values") =>
        /\ last.error # NoError
        /\ nodes = last.pre
        /\ lastNode = last.preLast

---------------------------------------------------------------------------
(* OrderSpec: order_nodes on the workflows create_node builds by appending *)
(* at most MaxNodes rows, any one action node deleted, in each display     *)
(* order of the live nodes.  order_nodes reads and writes no pointer.      *)

\* The sequences that hold each element of S once.
RECURSIVE Orderings(_)
Orderings(S) ==
    IF S = {} THEN {<<>>}
    ELSE UNION {{Append(q, x) : q \in Orderings(S \ {x})} : x \in S}

\* The sequences over S without a repeated element.
Arrangements(S) == UNION {Orderings(T) : T \in SUBSET S}

Range(q) == {q[i] : i \in 1..Len(q)}

\* AutomationNode.order_objects raises IdDoesNotExist for an id of `order`
\* that the queryset does not hold.
order_objects_error(ids, order) ==
    IF Range(order) \subseteq ids THEN NoError ELSE "IdDoesNotExist"

\* The display orders order_objects may leave: the ids of `order` in the
\* sequence given; where `order` leaves ids of the queryset out, their place
\* is not known.
order_objects(ids, order) ==
    {full_order \in Orderings(ids) :
        SelectSeq(full_order, LAMBDA x : x \in Range(order)) = order}

\* order_nodes lets IdDoesNotExist through.
order_nodes_error_untranslated(ids, order) == order_objects_error(ids, order)

\* order_nodes: IdDoesNotExist becomes AutomationNodeNotInWorkflow.
order_nodes_error(ids, order) ==
    IF order_objects_error(ids, order) = "IdDoesNotExist"
    THEN "AutomationNodeNotInWorkflow"
    ELSE NoError

RECURSIVE ChainOfSize(_)
ChainOfSize(n) ==
    IF n = 1 THEN InitNodes
    ELSE create_node(ChainOfSize(n - 1), "action", 1, None, Absent, NoOutput, n - 1)

OrderInit ==
    /\ \E n \in 1..MaxNodes : nodes \in WithOneDeleted(ChainOfSize(n))
    /\ nodes_order \in Orderings(Live(nodes))
    /\ lastNode = nodes_order[Len(nodes_order)]
    /\ last = NoOp
    /\ dispatch_context = NoDispatch
    /\ router = NoRouter
    /\ limiter = NoLimiter
    /\ published_copy = NoCopy
    /\ InitRun

\* order_nodes(workflow, order); the id Len(nodes) + 1 is no node at all.
OrderNodesCall(order) ==
    /\ last.op = "none"
    /\ LET ids == WorkflowNodes(nodes, 1)
           error == order_nodes_error(ids, order)
       IN  /\ last' = [op |-> "order", order |-> order, ids |-> ids,
                       pre |-> nodes_order, error |-> error]
           /\ IF error = NoError
              THEN nodes_order' \in order_objects(ids, order)
              ELSE nodes_order' = nodes_order
    /\ lastNode' = nodes_order'[Len(nodes_order')]
    /\ UNCHANGED <<nodes, runVars, dispatchVars, limiter, published_copy>>

OrderNext ==
    \E order \in Arrangements(1..(Len(nodes) + 1)) : OrderNodesCall(order)

OrderSpec == OrderInit /\ [][OrderNext]_vars

\* C24: order_nodes with a permutation of the workflow's node ids leaves
\* get_nodes_order equal to that sequence; with an id that is not a node of
\* the workflow it fails with AutomationNodeNotInWorkflow.
C24_OrderNodes ==
    last.op = "order" =>
        /\ (Range(last.order) = last.ids) =>
              /\ last.error = NoError
              /\ nodes_order = last.order
        /\ ~(Range(last.order) \subseteq last.ids) =>
              /\ last.error = "AutomationNodeNotInWorkflow"
              /\ nodes_order = last.pre

\* Three live nodes were put in a new order.
C24_Witness ==
    /\ last.op = "order"
    /\ Len(last.order) = 3
    /\ Range(last.order) = last.ids
    /\ last.order # last.pre
    /\ nodes_order = last.order

\* A sequence naming a trashed node was refused.
C24_WitnessNotInWorkflow ==
    /\ last.op = "order"
    /\ last.error = "AutomationNodeNotInWorkflow"
    /\ \E i \in 1..Len(last.order) :
          /\ last.order[i] \in Ids(nodes)
          /\ nodes[last.order[i]].trashed # NotTrashed

---------------------------------------------------------------------------
(* LimiterSpec: start attempts of several workers on one workflow, each in *)
(* _check_is_rate_limited: global_cache.update reads the cache entry,      *)
(* calls _check_is_rate_limited_value on it and stores what it returns.    *)

Workers == {1, 2}

lock_is_free_always(holder) == TRUE

\* global_cache.update holds a lock of the key from the read to the write.
lock_is_free(holder) == holder = None

\* The entry as the cache returns it: the default value once the timeout
\* has passed since it was set.
cache_get(data, set_at, t) ==
    IF t >= set_at + AUTOMATION_WORKFLOW_RATE_LIMIT_CACHE_EXPIRY_SECONDS
    THEN <<>> ELSE data

LimiterInit ==
    /\ nodes = InitNodes
    /\ lastNode = 1
    /\ last = NoOp
    /\ dispatch_context = NoDispatch
    /\ router = NoRouter
    /\ nodes_order = <<>>
    /\ published_copy = NoCopy
    /\ limiter = [pc |-> [w \in Workers |-> "idle"],
                  data |-> [w \in Workers |-> <<>>],
                  lock |-> None, set_at |-> 0, attempts |-> 0]
    /\ InitRun

\* before_run reaches _check_is_rate_limited.
LimiterCall(w) ==
    /\ limiter.pc[w] = "idle"
    /\ limiter.attempts < MaxAttempts
    /\ limiter' = [limiter EXCEPT !.pc[w] = "called", !.attempts = @ + 1]
    /\ UNCHANGED <<graphVars, runVars, dispatchVars, nodes_order, published_copy>>

\* global_cache.update: the lock is taken and the entry read.
LimiterGet(w) ==
    /\ limiter.pc[w] = "called"
    /\ lock_is_free(limiter.lock)
    /\ limiter' = [limiter EXCEPT
                      !.pc[w] = "read",
                      !.lock = w,
                      !.data[w] = cache_get(window, limiter.set_at, now)]
    /\ UNCHANGED <<graphVars, runVars, dispatchVars, nodes_order, published_copy>>

\* The callback raises AutomationWorkflowRateLimited: nothing is stored.
LimiterRaises(w) ==
    /\ limiter.pc[w] = "read"
    /\ rate_limited(limiter.data[w], now)
    /\ limiter' = [limiter EXCEPT
                      !.pc[w] = "idle",
                      !.data[w] = <<>>,
                      !.lock = IF @ = w THEN None ELSE @]
    /\ lastRun' = [kind |-> "limiter", worker |-> w, outcome |-> "RateLimited",
                   at |-> now, pre |-> [window |-> window, admitted |-> admitted]]
    /\ UNCHANGED <<graphVars, now, window, history, wfState, armed, admitted,
                   dispatchVars, nodes_order, published_copy>>

\* The callback returns the timestamps in the window and its own.
LimiterCallback(w) ==
    /\ limiter.pc[w] = "read"
    /\ ~rate_limited(limiter.data[w], now)
    /\ limiter' = [limiter EXCEPT
                      !.pc[w] = "computed",
                      !.data[w] = _check_is_rate_limited_value(limiter.data[w], now)]
    /\ UNCHANGED <<graphVars, runVars, dispatchVars, nodes_order, published_copy>>

\* global_cache.update stores the value and gives the lock back: the attempt
\* is admitted with the timestamp the callback took.
LimiterSet(w) ==
    /\ limiter.pc[w] = "computed"
    /\ window' = limiter.data[w]
    /\ admitted' = Append(admitted, limiter.data[w][Len(limiter.data[w])])
    /\ limiter' = [limiter EXCEPT
                      !.pc[w] = "idle",
                      !.data[w] = <<>>,
                      !.set_at = now,
                      !.lock = IF @ = w THEN None ELSE @]
    /\ lastRun' = [kind |-> "limiter", worker |-> w, outcome |-> "Admitted",
                   at |-> now, pre |-> [window |-> window, admitted |-> admitted]]
    /\ UNCHANGED <<graphVars, now, history, wfState, armed, dispatchVars, nodes_order, published_copy>>

LimiterTick ==
    /\ now < MaxTime
    /\ now' = now + 1
    /\ UNCHANGED <<graphVars, window, history, wfState, armed, admitted, lastRun,
                   dispatchVars, otherVars>>

LimiterNext ==
    \/ \E w \in Workers : LimiterCall(w)
    \/ \E w \in Workers : LimiterGet(w)
    \/ \E w \in Workers : LimiterRaises(w)
    \/ \E w \in Workers : LimiterCallback(w)
    \/ \E w \in Workers : LimiterSet(w)
    \/ LimiterTick

LimiterSpec == LimiterInit /\ [][LimiterNext]_vars

\* C28: however the start attempts of the workers interleave, no window of
\* AUTOMATION_WORKFLOW_RATE_LIMIT_CACHE_EXPIRY_SECONDS holds more than
\* AUTOMATION_WORKFLOW_RATE_LIMIT_MAX_RUNS admitted attempts, and every
\* admitted timestamp still inside the window is in the cache entry.
C28_AtomicUpdate ==
    /\ \A t \in 1..now :
          AdmittedIn(admitted, t) <= AUTOMATION_WORKFLOW_RATE_LIMIT_MAX_RUNS
    /\ runs_in_window(cache_get(window, limiter.set_at, now), now)
          = runs_in_window(admitted, now)

\* One worker holds the lock, with a full window read, while the other has
\* called and waits.
C28_Witness ==
    /\ \E w, v \in Workers :
          /\ limiter.pc[w] = "read"
          /\ limiter.lock = w
          /\ rate_limited(limiter.data[w], now)
          /\ limiter.pc[v] = "called"
    /\ AdmittedIn(admitted, now) = AUTOMATION_WORKFLOW_RATE_LIMIT_MAX_RUNS

\* An attempt was denied after the two workers were admitted at one time.
C28_WitnessDenied ==
    /\ lastRun.kind = "limiter"
    /\ lastRun.outcome = "RateLimited"
    /\ Len(admitted) = AUTOMATION_WORKFLOW_RATE_LIMIT_MAX_RUNS
    /\ \A i \in 1..Len(admitted) : admitted[i] = now
    /\ window = admitted

---------------------------------------------------------------------------
(* PublishSpec: publish exports the live nodes of the draft and imports    *)
(* them into a new workflow with a fresh id mapping; the draft is a        *)
(* well-formed graph whose display order order_nodes may have changed.     *)

PublishedWorkflow == 2

\* The uid the import of a router service gives the copy of edge `uid`.
ImportedEdge(uid) == IF uid = "k" THEN "k2" ELSE uid

\* id_mapping as publish passes it: no node is mapped, no edge is.
NoMapping(ns) ==
    [automation_workflow_nodes |-> [i \in Ids(ns) |-> None],
     automation_edge_outputs |-> {}]

\* _sort_serialized_nodes_by_priority: no node has a parent, so the nodes
\* go by their order.
_sort_serialized_nodes_by_priority(order) == order

\* deserialize_property("previous_node_id", value, id_mapping): the lookup
\* in the plain dict raises KeyError for an id that is not mapped yet.
deserialize_previous_node_id(id_mapping, value) ==
    IF value = None THEN [value |-> None, error |-> NoError]
    ELSE IF id_mapping.automation_workflow_nodes[value] = None
    THEN [value |-> None, error |-> "KeyError"]
    ELSE [value |-> id_mapping.automation_workflow_nodes[value], error |-> NoError]

\* deserialize_property("previous_node_output", value, id_mapping): the
\* value is the uid of an edge of the previous node's service, known to
\* the mapping once that service was imported.
deserialize_previous_node_output(id_mapping, previous_node_id, value) ==
    IF value = "" THEN value
    ELSE IF previous_node_id \in id_mapping.automation_edge_outputs
    THEN ImportedEdge(value) ELSE value

\* import_node of one serialized node: the properties are deserialized, the
\* node is created in the new workflow and its id enters the mapping; the
\* import of its service enters its edges.
import_node(ns, st, id) ==
    LET previous_node_id ==
            deserialize_previous_node_id(st.id_mapping, ns[id].prev)
        row == [wf |-> PublishedWorkflow, kind |-> ns[id].kind,
                prev |-> previous_node_id.value,
                out |-> deserialize_previous_node_output(st.id_mapping,
                                                         ns[id].prev, ns[id].out),
                trashed |-> NotTrashed]
    IN IF previous_node_id.error # NoError
       THEN [st EXCEPT !.error = previous_node_id.error]
       ELSE [st EXCEPT
               !.copy = Append(st.copy, row),
               !.id_mapping.automation_workflow_nodes[id] = Len(st.copy) + 1,
               !.id_mapping.automation_edge_outputs = @ \cup {id}]

\* import_nodes: one pass over the prioritized nodes imports every node
\* that is not in the mapping and has no parent; an exception ends it.
RECURSIVE import_nodes(_, _, _)
import_nodes(ns, prioritized_nodes, st) ==
    IF prioritized_nodes = <<>> \/ st.error # NoError THEN st
    ELSE import_nodes(ns, Tail(prioritized_nodes),
                      import_node(ns, st, Head(prioritized_nodes)))

\* The ids of the live nodes, in the order of creation.
RECURSIVE Ascending(_)
Ascending(S) ==
    IF S = {} THEN <<>>
    ELSE LET least == CHOOSE x \in S : \A y \in S : x <= y
         IN <<least>> \o Ascending(S \ {least})

PublishInit ==
    /\ \E n \in 1..MaxNodes : \E g \in GraphsOfSize(n) : nodes \in WithOneDeleted(g)
    /\ WellFormed(nodes)
    /\ nodes_order = Ascending(Live(nodes))
    /\ lastNode = nodes_order[Len(nodes_order)]
    /\ last = NoOp
    /\ dispatch_context = NoDispatch
    /\ router = NoRouter
    /\ limiter = NoLimiter
    /\ published_copy = NoCopy
    /\ InitRun

\* publish(workflow): export_workflow serializes get_nodes(workflow), the
\* live nodes, and import_nodes creates them in the copy.
PublishCall ==
    /\ published_copy.status = "none"
    /\ LET st == import_nodes(nodes, _sort_serialized_nodes_by_priority(nodes_order),
                              [id_mapping |-> NoMapping(nodes), copy |-> <<>>,
                               error |-> NoError])
       IN published_copy' =
            IF st.error = NoError
            THEN [status |-> "published", error |-> NoError, copy |-> st.copy,
                  id_mapping |-> st.id_mapping.automation_workflow_nodes]
            ELSE [status |-> "failed", error |-> st.error, copy |-> <<>>,
                  id_mapping |-> st.id_mapping.automation_workflow_nodes]
    /\ UNCHANGED <<graphVars, runVars, dispatchVars, nodes_order, limiter>>

\* order_nodes before the workflow is published.
PublishOrderNodes(order) ==
    /\ published_copy.status = "none"
    /\ OrderNodesCall(order)

PublishNext ==
    \/ \E order \in Orderings(WorkflowNodes(nodes, 1)) : PublishOrderNodes(order)
    \/ PublishCall

PublishSpec == PublishInit /\ [][PublishNext]_vars

PublishCalled == published_copy.status # "none"

CopyOf(n) == published_copy.id_mapping[n]

\* The copy has one node per live node of the draft, and the copy of each
\* has the copy of its predecessor as predecessor and the imported key.
StructuralClone ==
    /\ published_copy.status = "published"
    /\ Len(published_copy.copy) = Cardinality(Live(nodes))
    /\ \A n \in Live(nodes) : CopyOf(n) \in 1..Len(published_copy.copy)
    /\ \A n, o \in Live(nodes) : CopyOf(n) = CopyOf(o) => n = o
    /\ \A n \in Live(nodes) :
          LET c == published_copy.copy[CopyOf(n)]
          IN /\ c.kind = nodes[n].kind
             /\ c.prev = IF nodes[n].prev = None THEN None ELSE CopyOf(nodes[n].prev)
             /\ c.out = ImportedEdge(nodes[n].out)

\* Every live node comes after its predecessor in the display order.
PredecessorsFirst ==
    \A i, j \in 1..Len(nodes_order) :
        nodes[nodes_order[j]].prev = nodes_order[i] => i < j

\* C29: publish of a well-formed draft gives a structural clone, whatever
\* the display order of the draft's nodes is.
C29_StructuralClone == PublishCalled => StructuralClone

\* publish gives a structural clone when every node of the draft comes
\* after its predecessor in the display order, and fails, with no copy,
\* when one does not.
C29_CloneWhenPredecessorsFirst ==
    PublishCalled =>
        /\ PredecessorsFirst => StructuralClone
        /\ ~PredecessorsFirst =>
              /\ published_copy.status = "failed"
              /\ published_copy.error = "KeyError"

C29_Witness ==
    /\ published_copy.status = "published"
    /\ Len(published_copy.copy) = 3
    /\ last.op = "order"
    /\ \E n \in Live(nodes) : nodes[n].out = "k"

C29_WitnessFailed ==
    /\ published_copy.status = "failed"
    /\ Cardinality(Live(nodes)) = 3

---------------------------------------------------------------------------
(* MoveSpec: move_node on each workflow graph, with the AutomationNodeMove *)
(* it returns, and the inversion of the move from that record.  Some of    *)
(* the graphs stand beside a second workflow of the same automation.       *)

\* NextAutomationNodeValues of the nodes S as they are in ns.
NextNodeValues(ns, S) ==
    LET ids == Ascending(S)
    IN [k \in 1..Len(ids) |->
            [id |-> ids[k], previous_node_id |-> ns[ids[k]].prev,
             previous_node_output |-> ns[ids[k]].out]]

origin_old_next_nodes_values_after_update(ns, node) ==
    NextNodeValues(move_origin_closed(ns, node),
                   get_next_nodes(ns, ns[node].wf, node, NoOutput))

\* move_node, 426-434: the values of the origin's next nodes before they
\* are relinked.
origin_old_next_nodes_values(ns, node) ==
    NextNodeValues(ns, get_next_nodes(ns, ns[node].wf, node, NoOutput))

\* move_node, 460-468: the values of the destination's next nodes, read once
\* the origin's next nodes are relinked.
destination_old_next_nodes_values(ns, node, after_node, previous_node_output) ==
    LET closed == move_origin_closed(ns, node)
    IN NextNodeValues(closed, get_next_nodes(closed, ns[after_node].wf, after_node,
                                             previous_node_output))

\* The AutomationNodeMove move_node returns: the old values only.
AutomationNodeMove(ns, node, after_node, previous_node_output) ==
    [node |-> node,
     origin_previous_node_id |-> ns[node].prev,
     origin_previous_node_output |-> ns[node].out,
     origin_old_next_nodes_values |-> origin_old_next_nodes_values(ns, node),
     destination_old_next_nodes_values |->
        destination_old_next_nodes_values(ns, node, after_node, previous_node_output)]

\* The inversion of a move from its record, the steps of the move undone
\* last first: the destination's next nodes get their old values, the node
\* its origin, the origin's next nodes their old values.
undo_move(ns, move) ==
    LET destination == update_next_nodes_values(ns, move.destination_old_next_nodes_values)
        origin == [destination EXCEPT
                      ![move.node].prev = move.origin_previous_node_id,
                      ![move.node].out = move.origin_previous_node_output]
    IN update_next_nodes_values(origin, move.origin_old_next_nodes_values)

\* A second workflow of the automation: a trigger and an action behind it.
OtherWorkflow(n) ==
    <<[wf |-> 2, kind |-> "trigger", prev |-> None, out |-> "", trashed |-> NotTrashed],
      [wf |-> 2, kind |-> "action", prev |-> n + 1, out |-> "", trashed |-> NotTrashed]>>

MoveInit ==
    /\ \E g \in Graphs :
          \/ nodes \in WithOneDeleted(g)
          \/ nodes = g \o OtherWorkflow(Len(g))
    /\ lastNode = created_last(nodes)
    /\ last = NoOp
    /\ dispatch_context = NoDispatch
    /\ router = NoRouter
    /\ InitOther
    /\ InitRun

\* AutomationNodeService.move_node: the move and the record it returns.
MoveCall(node, new_previous_node_id, new_previous_output) ==
    /\ last.op = "none"
    /\ Move(node, new_previous_node_id, new_previous_output)
    /\ last' = [op |-> "move", pre |-> nodes, x |-> node, y |-> new_previous_node_id,
                q |-> new_previous_output, error |-> NoError,
                move |-> AutomationNodeMove(nodes, node, new_previous_node_id,
                                            new_previous_output)]
    /\ UNCHANGED <<runVars, dispatchVars, otherVars>>

\* The move is inverted from the record.
MoveUndo ==
    /\ last.op = "move"
    /\ nodes' = undo_move(nodes, last.move)
    /\ last' = [last EXCEPT !.op = "undo"]
    /\ UNCHANGED <<lastNode, runVars, dispatchVars, otherVars>>

MoveNext ==
    \/ \E node \in Ids(nodes), after \in Ids(nodes), q \in {NoOutput} \cup Outputs :
            MoveCall(node, after, q)
    \/ MoveUndo

MoveSpec == MoveInit /\ [][MoveNext]_vars

\* C33: the record move_node returns is enough to invert the move: with
\* the node reset to the recorded origin and every relinked node to its
\* recorded old values, every node has the previous_node_id and
\* previous_node_output it had before the move, whatever node was moved
\* after whatever node, its own predecessor included.
C33_MoveInverted ==
    last.op = "undo" => nodes = last.pre

\* A node with a follower was moved after its own predecessor, which left
\* the node pointing at itself, and the move was inverted.
C33_Witness ==
    /\ last.op = "undo"
    /\ last.y = last.pre[last.x].prev
    /\ last.q = NoOutput
    /\ Len(last.move.origin_old_next_nodes_values) >= 1
    /\ Len(last.move.destination_old_next_nodes_values) >= 2
    /\ nodes = last.pre

MoveCalled == last.op = "move"

\* The nodes the move gave another previous_node_id or previous_node_output.
Relinked ==
    {i \in Ids(nodes) \ {last.x} :
        nodes[i].prev # last.pre[i].prev \/ nodes[i].out # last.pre[i].out}

\* C39: after a move_node call that is not refused the node is in the
\* workflow it was in, which is the workflow of after_node, and so is every
\* node the move relinked.
C39_MoveSameWorkflow ==
    MoveCalled =>
        /\ nodes[last.x].wf = last.pre[last.x].wf
        /\ nodes[last.x].wf = nodes[last.y].wf
        /\ \A i \in Relinked : nodes[i].wf = nodes[last.x].wf

\* What holds: no move changes the workflow of a node, and a relinked node
\* is of the workflow of the node or of the workflow of after_node.
C39_MoveKeepsWorkflow ==
    MoveCalled =>
        /\ \A i \in Ids(nodes) : nodes[i].wf = last.pre[i].wf
        /\ \A i \in Relinked : nodes[i].wf \in {nodes[last.x].wf, nodes[last.y].wf}

\* A node was moved behind the trigger of the other workflow and the action
\* of that workflow now follows it.
C39_Witness ==
    /\ MoveCalled
    /\ nodes[last.x].wf # nodes[last.y].wf
    /\ nodes[last.x].prev = last.y
    /\ \E i \in Relinked : nodes[i].wf = nodes[last.y].wf /\ nodes[i].prev = last.x

---------------------------------------------------------------------------
(* DuplicateSpec: DuplicateAutomationNodeActionType on each workflow       *)
(* graph: do, then undo, then redo.                                        *)

source_node_next_nodes_values_after_update(ns, source) ==
    NextNodeValues(duplicate_node(ns, source),
                   get_next_nodes(ns, ns[source].wf, source, ""))

\* duplicate_node, 358-366: the values of the source's next nodes on the
\* empty branch, before they are relinked.
source_node_next_nodes_values(ns, source) ==
    NextNodeValues(ns, get_next_nodes(ns, ns[source].wf, source, ""))

\* duplicate_node, 387-395: the values of the duplicate's next nodes on the
\* empty branch, once the source's were relinked to it.
duplicated_node_next_nodes_values(ns, source) ==
    LET duplicated == duplicate_node(ns, source)
        duplicated_node == Len(ns) + 1
    IN NextNodeValues(duplicated,
                      get_next_nodes(duplicated, ns[source].wf, duplicated_node, ""))

\* The AutomationNodeDuplication as the action keeps it in its params.
AutomationNodeDuplication(ns, source) ==
    [node_id |-> source,
     source_node_next_nodes_values |-> source_node_next_nodes_values(ns, source),
     duplicated_node_id |-> Len(ns) + 1,
     duplicated_node_next_nodes_values |-> duplicated_node_next_nodes_values(ns, source)]

\* TrashHandler.restore_item for a node trashed by an ordinary delete: the
\* node is live again.
restore_item(ns, node) == [ns EXCEPT ![node].trashed = NotTrashed]

\* DuplicateAutomationNodeActionType.undo
duplicate_undo(ns, params) ==
    update_next_nodes_values(trash(ns, params.duplicated_node_id, DeleteOp),
                             params.source_node_next_nodes_values)

\* DuplicateAutomationNodeActionType.redo
duplicate_redo(ns, params) ==
    update_next_nodes_values(restore_item(ns, params.duplicated_node_id),
                             params.duplicated_node_next_nodes_values)

DuplicateInit ==
    /\ \E g \in Graphs : nodes \in WithOneDeleted(g)
    /\ lastNode \in Live(nodes)
    /\ last = NoOp
    /\ dispatch_context = NoDispatch
    /\ router = NoRouter
    /\ InitOther
    /\ InitRun

DuplicateDo(source_node_id) ==
    /\ last.op = "none"
    /\ Duplicate(source_node_id)
    /\ last' = [op |-> "duplicate", pre |-> nodes, post |-> nodes', error |-> NoError, undone |-> 0,
                params |-> AutomationNodeDuplication(nodes, source_node_id)]
    /\ UNCHANGED <<runVars, dispatchVars, otherVars>>

DuplicateUndo ==
    /\ last.op \in {"duplicate", "redo"}
    /\ last.undone < MaxUndo
    /\ delete_allowed(nodes[last.params.duplicated_node_id].kind)
    /\ nodes' = duplicate_undo(nodes, last.params)
    /\ lastNode' \in last_after_delete(nodes, lastNode, last.params.duplicated_node_id)
    /\ last' = [last EXCEPT !.op = "undo", !.undone = @ + 1]
    /\ UNCHANGED <<runVars, dispatchVars, otherVars>>

DuplicateRedo ==
    /\ last.op = "undo"
    /\ nodes' = duplicate_redo(nodes, last.params)
    /\ lastNode' = last.params.duplicated_node_id
    /\ last' = [last EXCEPT !.op = "redo"]
    /\ UNCHANGED <<runVars, dispatchVars, otherVars>>

DuplicateNext ==
    \/ \E source_node_id \in Ids(nodes) : DuplicateDo(source_node_id)
    \/ DuplicateUndo
    \/ DuplicateRedo

DuplicateSpec == DuplicateInit /\ [][DuplicateNext]_vars

\* C34: the undo of a duplication leaves the duplicate soft-deleted and
\* every node of the graph before the duplication as it was then, the
\* relinked followers behind the source again; the redo that follows leaves
\* the duplicate live and the graph as the duplication left it, the
\* followers behind the duplicate.
C34_DuplicateUndoRedo ==
    /\ last.op = "undo" =>
          /\ nodes[last.params.duplicated_node_id].trashed = DeleteOp
          /\ \A i \in Ids(last.pre) : nodes[i] = last.pre[i]
    /\ last.op = "redo" => nodes = last.post

\* The duplication of a node with followers on both branches was undone,
\* redone and undone again.
C34_Witness ==
    /\ last.op = "undo"
    /\ last.undone = MaxUndo
    /\ Len(last.params.source_node_next_nodes_values) >= 1
    /\ get_next_nodes(nodes, 1, last.params.node_id, "k") # {}
    /\ \A i \in Ids(last.pre) : nodes[i] = last.pre[i]

C34_WitnessRedo ==
    /\ last.op = "redo"
    /\ Len(last.params.duplicated_node_next_nodes_values) >= 1
    /\ nodes = last.post

---------------------------------------------------------------------------
(* The admission checks of before_run (RunSpec) *)

\* The breaker's condition held when the last run was started.
BreakerDenies ==
    /\ lastRun.kind # "none"
    /\ _check_too_many_errors(create_workflow_history(lastRun.pre.history, lastRun.simulate))

WindowFull ==
    /\ lastRun.kind # "none"
    /\ rate_limited(lastRun.pre.window, lastRun.at)

\* C35: when the breaker's condition holds at a start, the run is denied
\* with TooManyErrors, also when the rate limit window is full, and the
\* window is what it was before the start.
C35_BreakerBeforeRateLimit ==
    BreakerDenies => /\ lastRun.outcome = "TooManyErrors"
                     /\ window = lastRun.pre.window
                     /\ admitted = lastRun.pre.admitted

\* The breaker denied a run while the window was full.
C35_Witness ==
    /\ BreakerDenies
    /\ WindowFull
    /\ lastRun.outcome = "TooManyErrors"
    /\ window = lastRun.pre.window

---------------------------------------------------------------------------
(* ArmSpec: the run controller with the test and simulation flags of the   *)
(* draft workflow recorded around start_workflow and toggle_test_run.      *)

\* toggle_test_run, 866-894: whether async_start_workflow is called;
\* immediate stands for can_immediately_be_tested and, in a simulation, the
\* sample data test of the trigger.
toggle_starts_run(a, simulate_until_node, immediate) ==
    IF a.simulate_until_node # None \/ a.allow_test_run_until # None
    THEN FALSE
    ELSE immediate

ArmStart(workflow, simulate_until_node, dispatch) ==
    /\ workflow = "published" => get_published_workflow(wfState) # NoWorkflow
    /\ workflow = "published" => simulate_until_node = None
    /\ simulate_until_node = None => Len(history) < MaxHistory
    /\ start_workflow(workflow, simulate_until_node, dispatch)
    /\ last' = [op |-> "start_workflow", armed |-> armed, at |-> now]
    /\ UNCHANGED <<nodes, lastNode, dispatchVars, otherVars>>

ArmToggle(simulate_until_node, immediate) ==
    /\ toggle_test_run(simulate_until_node)
    /\ last' = [op |-> "toggle_test_run", armed |-> armed, at |-> now,
                simulate_until_node |-> simulate_until_node,
                started |-> toggle_starts_run(armed, simulate_until_node, immediate)]
    /\ UNCHANGED <<nodes, lastNode, dispatchVars, otherVars>>

ArmNext ==
    \/ \E workflow \in Workflows, simulate_until_node \in {None} \cup Live(nodes),
          dispatch \in DispatchOutcomes :
            ArmStart(workflow, simulate_until_node, dispatch)
    \/ \E simulate_until_node \in {None} \cup Live(nodes), immediate \in BOOLEAN :
            ArmToggle(simulate_until_node, immediate)
    \/ Publish
    \/ Tick

ArmSpec == RunInit /\ [][ArmNext]_vars

Cleared == [allow_test_run_until |-> None, simulate_until_node |-> None]

Started == last.op = "start_workflow"

\* C36: after a call of start_workflow, whatever its outcome, both flags of
\* the draft workflow are null.
C36_ArmConsumed == Started => armed = Cleared

\* A run of the published workflow was denied by the rate limit while a
\* simulation was armed on the draft.
C36_Witness ==
    /\ Started
    /\ last.armed.simulate_until_node # None
    /\ lastRun.kind = "published"
    /\ lastRun.outcome = "RateLimited"
    /\ armed = Cleared

\* A test run was armed, and the run failed in dispatch.
C36_WitnessFailed ==
    /\ Started
    /\ last.armed.allow_test_run_until # None
    /\ lastRun.outcome = "DispatchException"
    /\ armed = Cleared

C36_WitnessBreaker ==
    /\ Started
    /\ last.armed # Cleared
    /\ lastRun.outcome = "TooManyErrors"
    /\ armed = Cleared

Toggled == last.op = "toggle_test_run"

\* An arm the next event would honour: a simulation target, or a test run
\* allowed until a time still to come.
ActiveArm(a, t) ==
    \/ a.simulate_until_node # None
    \/ a.allow_test_run_until # None /\ a.allow_test_run_until > t

\* What toggle_test_run tests: a flag that is set, expired or not.
FlagSet(a) == a.simulate_until_node # None \/ a.allow_test_run_until # None

\* The flags after a toggle that arms: the target, or a test run allowed
\* until a later time, and nothing else.
OneArm(simulate_until_node, t) ==
    IF simulate_until_node # None
    THEN armed = [allow_test_run_until |-> None,
                  simulate_until_node |-> simulate_until_node]
    ELSE /\ armed.simulate_until_node = None
         /\ armed.allow_test_run_until # None
         /\ armed.allow_test_run_until > t

\* C37: a toggle on a workflow with an active arm clears both flags and
\* starts no run; a toggle on a workflow with no active arm sets exactly
\* one arm, the simulation target if one is given and otherwise a test run
\* allowed until a later time.
C37_CancelSemantics ==
    Toggled => IF ActiveArm(last.armed, last.at)
               THEN armed = Cleared /\ ~last.started
               ELSE OneArm(last.simulate_until_node, last.at)

\* The same with "a flag is set" in the place of "an arm is active".
C37_CancelOnFlagSet ==
    Toggled => IF FlagSet(last.armed)
               THEN armed = Cleared /\ ~last.started
               ELSE OneArm(last.simulate_until_node, last.at)

\* A toggle found a test run whose time had passed.
C37_Witness ==
    /\ Toggled
    /\ FlagSet(last.armed)
    /\ ~ActiveArm(last.armed, last.at)

\* A toggle armed a simulation and started the run at once.
C37_WitnessArmed ==
    /\ Toggled
    /\ ~FlagSet(last.armed)
    /\ last.simulate_until_node # None
    /\ last.started
    /\ armed.simulate_until_node = last.simulate_until_node

---------------------------------------------------------------------------
(* RateSpec: the run controller when dispatch never fails; every Error in  *)
(* the history is then the entry of a run the rate limit denied.           *)

RateNext ==
    \/ \E workflow \in Workflows, simulate_until_node \in {None} \cup Live(nodes) :
            StartWorkflow(workflow, simulate_until_node, "Success")
    \/ Publish
    \/ Tick

RateSpec == RunInit /\ [][RateNext]_vars

\* The N most recent entries before the last start are Error.
ErrorStreak ==
    /\ lastRun.kind # "none"
    /\ Len(lastRun.pre.history) >= AUTOMATION_WORKFLOW_MAX_CONSECUTIVE_ERRORS
    /\ \A i \in 1..AUTOMATION_WORKFLOW_MAX_CONSECUTIVE_ERRORS :
            lastRun.pre.history[i] = "error"

RateLimitedRecorded ==
    (lastRun.kind # "none" /\ lastRun.outcome = "RateLimited" /\ ~lastRun.simulate)
        => /\ Len(history) = Len(lastRun.pre.history) + 1
           /\ history[1] = "error"

Tripped ==
    /\ lastRun.outcome = "TooManyErrors"
    /\ lastRun.post[lastRun.kind] = "disabled"

\* C38: a run the rate limit denies closes its entry with Error, and after
\* N such entries in a row, without one failure in dispatch, the next
\* attempt is denied with TooManyErrors and the workflow is disabled.
C38_RateLimitTrips ==
    /\ RateLimitedRecorded
    /\ ErrorStreak => Tripped

\* The same for a next attempt that is not a simulation.
C38_RateLimitTripsRun ==
    /\ RateLimitedRecorded
    /\ (ErrorStreak /\ ~lastRun.simulate) => Tripped

\* N runs denied by the rate limit, then a run denied by the breaker.
C38_Witness ==
    /\ ErrorStreak
    /\ ~lastRun.simulate
    /\ Tripped
    /\ history[1] = "disabled"

---------------------------------------------------------------------------
(* DispatchFairSpec: DispatchSpec when every call of node_type.dispatch    *)
(* returns or raises: a run in progress takes its next step.               *)

DispatchStep ==
    \/ \E node \in Ids(nodes), output_uid \in Outputs : DispatchNode(node, output_uid)
    \/ \E node \in Ids(nodes), exception \in DispatchExceptions :
            DispatchRaises(node, exception)

DispatchFairSpec == DispatchSpec /\ WF_vars(DispatchStep)

Running == dispatch_context.status = "running"

Returned == dispatch_context.status \in {"done", "failed"}

\* C40: a run started at the trigger returns, on every graph the mutation
\* operations leave behind, when every call of a node's service returns.
C40_Terminates == Running ~> Returned

\* The run never dispatches more nodes than the workflow has live ones.
C40_FinitelyMany ==
    Dispatching => Len(Trace) <= Cardinality(Live(nodes))

\* A run returned on a graph with a node that follows itself, having
\* dispatched the trigger and a node behind it.
C40_Witness ==
    /\ dispatch_context.status = "done"
    /\ Len(Trace) >= 2
    /\ Len(Trace) < Cardinality(Live(nodes))
    /\ \E n \in Live(nodes) : nodes[n].prev = n

\* A run returned on a graph that holds two nodes following each other.
C40_WitnessCycle ==
    /\ dispatch_context.status = "done"
    /\ \E a, b \in Live(nodes) : a # b /\ nodes[a].prev = b /\ nodes[b].prev = a

====
